---- MODULE Spec2Model ----
(***************************************************************************)
(* what-the-flight: "point your phone at a plane".                         *)
(*                                                                         *)
(* Three state machines share this module:                                 *)
(*   Spec        the browser client (page component Home): geolocation,    *)
(*               polling of /api/flights, orientation events with          *)
(*               smoothing, the match effect;                              *)
(*   SpecServer  one GET /api/flights request against its providers;       *)
(*   SpecSmooth  the pure smoothing functions applied to drawn inputs.     *)
(*                                                                         *)
(* Numbers.  The program computes in IEEE doubles.  The model computes in  *)
(* exact fixed point: an angle is an integer number of 1/Deg degrees, an   *)
(* altitude an integer number of 1/AltPerMetre metres, a distance an       *)
(* integer number of metres.  Deg is chosen so that every blend            *)
(* x + d * 0.15 of a session of MaxEvents orientation events is exact.     *)
(* The trigonometric functions are tabulated: the tables hold the values   *)
(* of the source formulas at the aircraft positions of the model, rounded  *)
(* to 0.01 degree and to 1 metre.                                          *)
(***************************************************************************)
EXTENDS Integers, Sequences, FiniteSets, TLC

(* ------------------------------ bounds -------------------------------- *)

\* orientation events handled in one tracking session
MaxEvents == 2
\* polls issued by the client
MaxPolls == 2
\* aircraft records in one provider answer (SpecServer)
MaxAc == 2

(* ------------------------------- units -------------------------------- *)

\* model units per 0.01 degree: 2 * 20^(MaxEvents-1), so that the at most
\* MaxEvents-1 blends by 3/20 and the weight 3/2 of the score stay exact
CentiDeg == 2 * 20^(MaxEvents - 1)
Deg == 100 * CentiDeg
AltPerMetre == 10^4

\* JavaScript null / undefined
Null == 0 - 2000000000

\* JavaScript's % on numbers: the result has the sign of the dividend
JsRem(a, m) == IF a >= 0 THEN a % m ELSE 0 - ((0 - a) % m)

Abs(x) == IF x < 0 THEN 0 - x ELSE x
Max(a, b) == IF a > b THEN a ELSE b
Min(a, b) == IF a < b THEN a ELSE b

(* ------------------------ Geo-Math (tabulated) ------------------------ *)

\* the observer of the model: London, in micro-degrees
ObserverLat == 51507400
ObserverLon == 0 - 127800

\* Math.sqrt of a negative number, and whatever is computed from it
NaN == 0 - 1999999999

\* <<lat1, lon1, lat2, lon2, s, d>>, positions in micro-degrees. s is the
\* double toDeg(Math.atan2(y, x)) + 360 of calculateBearing, before % 360,
\* in 0.01 degree; d is the double R * c of calculateDistance in metres, or
\* NaN where 1 - a is negative. Both are rounded to the unit, except that a
\* double below a multiple of 360 degrees stays below it (359.99994 is 35999).
\* The first nine rows are the observer and the positions of the providers'
\* aircraft; the others are pairs from all over the valid range.
GeoTable ==
    {
      << 51507400, 0 - 127800, 51499472, 16144, 45500, 10002 >>,
      << 51507400, 0 - 127800, 51483781, 85539, 46000, 15001 >>,
      << 51507400, 0 - 127800, 51516680, 44985, 44500, 12002 >>,
      << 51507400, 0 - 127800, 51507378, 0 - 55563, 45000, 4999 >>,
      << 51507400, 0 - 127800, 51494853, 0 - 14012, 46000, 7999 >>,
      << 51507400, 0 - 127800, 51417190, 122002, 48000, 20003 >>,
      << 51507400, 0 - 127800, 51507368, 0 - 41109, 45000, 6000 >>,
      << 51507400, 0 - 127800, 51253781, 0 - 275235, 20000, 30000 >>,
      << 51507400, 0 - 127800, 51507400, 0 - 127800, 36000, 0 >>,
      << 2500000, 0, 0 - 2500000, 180000000, 45000, NaN >>,
      << 5500000, 0 - 127800, 0 - 5500000, 179872200, 45000, NaN >>,
      << 8000000, 0, 0 - 8000000, 180000000, 45000, NaN >>,
      << 0 - 2600000, 180000000, 2600000, 0, 27000, NaN >>,
      << 0, 0, 0, 180000000, 45000, 20015087 >>,
      << 0, 0, 0, 0 - 180000000, 27000, 20015087 >>,
      << 90000000, 0, 0 - 90000000, 0, 54000, 20015087 >>,
      << 0 - 90000000, 0 - 180000000, 90000000, 180000000, 36000, 20015087 >>,
      << 0, 0, 1000000, 0 - 1, 35999, 111195 >>,
      << 0, 0, 89999999, 0 - 1, 36000, 10007543 >>,
      << 51507400, 0 - 127800, 52000000, 0 - 127801, 35999, 54775 >>,
      << 10000000, 20000000, 10000000, 20000000, 36000, 0 >>,
      << 45000000, 0 - 180000000, 45000000, 180000000, 27000, 0 >>,
      << 0, 0, 0, 90000000, 45000, 10007543 >>,
      << 0, 0, 0, 0 - 90000000, 27000, 10007543 >>,
      << 0, 0, 0 - 45000000, 0, 54000, 5003772 >>,
      << 0, 0, 45000000, 0, 36000, 5003772 >>,
      << 51507400, 0 - 127800, 40712800, 0 - 74006000, 28833, 5570222 >>,
      << 51507400, 0 - 127800, 0 - 33868800, 151209300, 42071, 16993933 >>,
      << 0 - 33868800, 151209300, 51507400, 0 - 127800, 31917, 16993933 >>,
      << 35676200, 139650300, 34052200, 0 - 118243700, 41553, 8819393 >>,
      << 90000000, 0, 51507400, 0 - 127800, 18013, 4280182 >>,
      << 0 - 90000000, 0, 51507400, 0 - 127800, 35987, 15734905 >>,
      << 51507400, 0 - 127800, 90000000, 0, 36000, 4280182 >>,
      << 0, 179999999, 0, 0 - 179999999, 45000, 0 >>,
      << 0, 0 - 179999999, 0, 179999999, 27000, 0 >>,
      << 89999999, 0, 89999999, 180000000, 36000, 0 >>,
      << 0 - 45000000, 0 - 90000000, 0 - 45000000, 90000000, 54000, 10007543 >>,
      << 51507400, 0 - 127800, 51507400, 0 - 127801, 27000, 0 >>,
      << 51507400, 0 - 127800, 51507399, 0 - 127800, 54000, 0 >>,
      << 1000000, 1000000, 0 - 1000000, 0 - 1000000, 22500, 314499 >>,
      << 0 - 1000000, 0 - 1000000, 1000000, 1000000, 40500, 314499 >> }

GeoRow(lat1, lon1, lat2, lon2) ==
    CHOOSE r \in GeoTable :
        /\ r[1] = lat1 /\ r[2] = lon1
        /\ r[3] = lat2 /\ r[4] = lon2

\* (bearing + 360) % 360; % on doubles is exact
calculateBearing(lat1, lon1, lat2, lon2) ==
    JsRem(GeoRow(lat1, lon1, lat2, lon2)[5], 360 * 100) * CentiDeg

\* in metres (the source returns kilometres)
calculateDistance(lat1, lon1, lat2, lon2) ==
    GeoRow(lat1, lon1, lat2, lon2)[6]

\* <<distance in metres, altitude in 1/AltPerMetre m, elevation in 0.01 degree>>:
\* the double (Math.atan2(altitude, distanceM) * 180) / Math.PI, rounded to
\* the unit, except that a double below 90 stays below it (89.9943 is 8999)
ElevationTable ==
    { <<10002, 21260000, 1200>>, <<10002, 6480048, 371>>,
      <<15001, 26450000, 1000>>, <<15001, 8061960, 308>>,
      <<15001, 26000000, 983>>,  <<15001, 7924800, 302>>,
      <<12002, 25510000, 1200>>, <<12002, 7775448, 371>>,
      <<4999, 30040000, 3100>>,  <<4999, 9156192, 1038>>,
      <<7999, 25990000, 1800>>,  <<7999, 7921752, 566>>,
      <<20003, 35270000, 1000>>, <<20003, 10750296, 308>>,
      <<6000, 34640000, 3000>>,  <<6000, 10558272, 998>>,
      <<30000, 1000000, 19>>,    <<30000, 304800, 6>>,
      <<0, 10000000, 9000>>,     <<0, 3048000, 9000>>,
      \* the edges: no distance, no altitude, both, and next to them
      <<0, 0, 0>>, <<0, 1, 9000>>, <<0, 10000, 9000>>, <<0, 5000, 9000>>, <<0, 120000000, 9000>>,
      <<1, 0, 0>>, <<1, 100000000, 8999>>, <<1, 1, 1>>, <<4999, 0, 0>>,
      <<10002, 0, 0>>, <<30000, 0, 0>>, <<50000, 0, 0>>, <<20015087, 0, 0>>,
      <<20015087, 100000000, 3>>, <<50000, 1, 0>>, <<1, 10000, 4500>>,
      <<1000, 10000000, 4500>>, <<100, 1000000, 4500>>,
      <<100000, 0, 0>> }

\* mutant of calculateElevation: Math.atan2(distanceM, altitude)
calculateElevationSwapped(distance, altitude) ==
    LET r == CHOOSE t \in ElevationTable : t[1] = distance /\ t[2] = altitude
    IN  IF distance = 0 /\ altitude = 0 THEN 0 ELSE (90 * 100 - r[3]) * CentiDeg

calculateElevation(distance, altitude) ==
    LET r == CHOOSE t \in ElevationTable : t[1] = distance /\ t[2] = altitude
    IN  r[3] * CentiDeg

(* -------------------------- provider records -------------------------- *)

\* One aircraft as a provider reports it.  geo/baro are alt_geom/alt_baro
\* (ADSB Exchange, feet) or geo_altitude/baro_altitude (OpenSky, metres).
Raw(hex, lat, lon, geo, baro, ground) ==
    [hex |-> hex, lat |-> lat, lon |-> lon, geo |-> geo, baro |-> baro,
     on_ground |-> ground]

RawA == Raw("A", 51499472, 16144, 2126, Null, FALSE)
RawB == Raw("B", 51483781, 85539, 2645, Null, FALSE)
RawC == Raw("C", 51516680, 44985, 2551, Null, FALSE)
RawD == Raw("D", 51507378, 0 - 55563, 3004, Null, FALSE)
RawE == Raw("E", 51494853, 0 - 14012, 2599, Null, FALSE)
RawF == Raw("F", 51417190, 122002, 3527, Null, FALSE)
RawG == Raw("G", 51507368, 0 - 41109, 3464, Null, FALSE)
\* no position
RawH == Raw("H", Null, Null, 5000, Null, FALSE)
\* on the ground
RawI == Raw("I", 51499472, 16144, 2126, Null, TRUE)
\* barometric altitude only, 99
RawJ == Raw("J", 51253781, 0 - 275235, Null, 99, FALSE)
\* altitude exactly 100
RawK == Raw("K", 51253781, 0 - 275235, 100, Null, FALSE)
\* barometric altitude only
RawL == Raw("L", 51483781, 85539, Null, 2600, FALSE)
\* no altitude at all
RawM == Raw("M", 51253781, 0 - 275235, Null, Null, FALSE)
\* right above the observer
RawZ == Raw("Z", 51507400, 0 - 127800, 1000, Null, FALSE)

RawRecords ==
    { RawA, RawB, RawC, RawD, RawE, RawF, RawG, RawH, RawI, RawJ, RawK,
      RawL, RawM, RawZ }

(* --------------------------- GET /api/flights -------------------------- *)

\* a ?? b
Coalesce(a, b) == IF a # Null THEN a ELSE b

FlightInfo(raw, altitude, bearing, distance, elevation) ==
    [icao24 |-> raw.hex, latitude |-> raw.lat, longitude |-> raw.lon,
     altitude |-> altitude, on_ground |-> raw.on_ground,
     bearing |-> bearing, distance |-> distance, elevation |-> elevation]

\* data.ac.map(...) of the ADSB Exchange branch: <<>> stands for null
MapAdsb(lat, lon, ac) ==
    LET altitude == Coalesce(ac.geo, Coalesce(ac.baro, 0))
    IN  IF ac.lat = Null \/ ac.lat = 0 \/ ac.lon = Null \/ ac.lon = 0 THEN <<>>
        ELSE IF ac.on_ground \/ altitude < 100 THEN <<>>
        ELSE LET bearing == calculateBearing(lat, lon, ac.lat, ac.lon)
                 distance == calculateDistance(lat, lon, ac.lat, ac.lon)
                 \* feet to metres: altitude * 0.3048
                 metres == altitude * 3048
                 elevation == calculateElevation(distance, metres)
             IN  << FlightInfo(ac, metres, bearing, distance, elevation) >>

\* data.states.map(...) of fetchFromOpenSky: <<>> stands for null
MapOpenSky(lat, lon, state) ==
    LET altitude == Coalesce(state.geo, Coalesce(state.baro, 0))
    IN  IF state.lat = Null \/ state.lon = Null THEN <<>>
        ELSE IF state.on_ground \/ altitude < 100 THEN <<>>
        ELSE LET bearing == calculateBearing(lat, lon, state.lat, state.lon)
                 distance == calculateDistance(lat, lon, state.lat, state.lon)
                 metres == altitude * AltPerMetre
                 elevation == calculateElevation(distance, metres)
             IN  << FlightInfo(state, metres, bearing, distance, elevation) >>

\* .map(f).filter(x => x !== null)
RECURSIVE MapFilter(_, _, _, _)
MapFilter(provider, lat, lon, raws) ==
    IF raws = <<>> THEN <<>>
    ELSE (IF provider = "adsbexchange"
          THEN MapAdsb(lat, lon, Head(raws))
          ELSE MapOpenSky(lat, lon, Head(raws)))
         \o MapFilter(provider, lat, lon, Tail(raws))

\* the comparator (a, b) => a.distance - b.distance
CompareDistance(a, b) == a.distance - b.distance

\* insert x after every element that does not compare greater than it
RECURSIVE InsertSorted(_, _)
InsertSorted(x, s) ==
    IF s = <<>> THEN << x >>
    ELSE IF CompareDistance(Head(s), x) > 0 THEN << x >> \o s
    ELSE << Head(s) >> \o InsertSorted(x, Tail(s))

\* mutant of SortByDistance: the list is returned in provider order
SortNone(s) == s

\* Array.prototype.sort with CompareDistance: a stable sort
RECURSIVE SortByDistance(_)
SortByDistance(s) ==
    IF s = <<>> THEN <<>>
    ELSE InsertSorted(s[Len(s)], SortByDistance(SubSeq(s, 1, Len(s) - 1)))

\* NextResponse.json(...): hasFlights tells whether the body has a flights
\* field, hasError whether it has an error field, calls lists the providers
\* that were fetched
Response(status, hasFlights, flights, source, hasError, calls) ==
    [status |-> status, hasFlights |-> hasFlights, flights |-> flights,
     source |-> source, hasError |-> hasError, calls |-> calls]

\* what a provider fetch does: kind "throw" (network error, abort), "notok"
\* (response.ok false), "nodata" (body without ac / states), "ok" (body
\* with the list data)
Outcome(kind, data) == [kind |-> kind, data |-> data]

fetchFromOpenSky(lat, lon, opensky, calls) ==
    LET called == Append(calls, "opensky")
    IN  IF opensky.kind = "throw"
        THEN Response(200, TRUE, <<>>, "opensky", TRUE, called)
        ELSE IF opensky.kind = "notok"
        THEN Response(200, TRUE, <<>>, "opensky", TRUE, called)
        ELSE IF opensky.kind = "nodata" \/ Len(opensky.data) = 0
        THEN Response(200, TRUE, <<>>, "opensky", FALSE, called)
        ELSE Response(200, TRUE,
                      SortByDistance(MapFilter("opensky", lat, lon, opensky.data)),
                      "opensky", FALSE, called)

\* setTimeout(() => controller.abort(), 15000), in milliseconds
FETCH_TIMEOUT == 15000

\* await fetch(url, {signal}) under the abort timer: a fetch that has not
\* resolved when the timer fires rejects, whatever it would have given
FetchWithAbort(outcome, elapsed) ==
    IF elapsed > FETCH_TIMEOUT THEN Outcome("throw", <<>>) ELSE outcome

\* await fetch(url) without a signal: it settles whenever the provider answers
FetchPlain(outcome, elapsed) == outcome

\* mutant of GET: a failed status of ADSB Exchange is answered with an empty
\* list instead of the OpenSky fallback
GETNoFallbackOnStatus(req, apiKey, adsb, opensky) ==
    IF ~req.valid
    THEN Response(400, FALSE, <<>>, "none", TRUE, <<>>)
    ELSE IF ~apiKey
    THEN fetchFromOpenSky(req.lat, req.lon, opensky, <<>>)
    ELSE IF adsb.kind = "throw"
    THEN fetchFromOpenSky(req.lat, req.lon, opensky, << "adsbexchange" >>)
    ELSE IF adsb.kind \in {"notok", "nodata"} \/ Len(adsb.data) = 0
    THEN Response(200, TRUE, <<>>, "adsbexchange", FALSE, << "adsbexchange" >>)
    ELSE Response(200, TRUE,
                  SortByDistance(MapFilter("adsbexchange", req.lat, req.lon, adsb.data)),
                  "adsbexchange", FALSE, << "adsbexchange" >>)

\* req.valid: parseFloat of lat and lon both gave numbers
GET(req, apiKey, adsb, opensky) ==
    IF ~req.valid
    THEN Response(400, FALSE, <<>>, "none", TRUE, <<>>)
    ELSE IF ~apiKey
    THEN fetchFromOpenSky(req.lat, req.lon, opensky, <<>>)
    ELSE IF adsb.kind = "throw"
    THEN fetchFromOpenSky(req.lat, req.lon, opensky, << "adsbexchange" >>)
    ELSE IF adsb.kind = "notok"
    THEN fetchFromOpenSky(req.lat, req.lon, opensky, << "adsbexchange" >>)
    ELSE IF adsb.kind = "nodata" \/ Len(adsb.data) = 0
    THEN Response(200, TRUE, <<>>, "adsbexchange", FALSE, << "adsbexchange" >>)
    ELSE Response(200, TRUE,
                  SortByDistance(MapFilter("adsbexchange", req.lat, req.lon, adsb.data)),
                  "adsbexchange", FALSE, << "adsbexchange" >>)

(* ------------------------- client: pure helpers ------------------------ *)

\* Normalize angle to 0-360
normalizeAngle(angle) == JsRem(JsRem(angle, 360 * Deg) + 360 * Deg, 360 * Deg)

\* Calculate angular difference accounting for wraparound
angleDiff(a, b) ==
    LET diff == normalizeAngle(a - b)
    IN  IF diff > 180 * Deg THEN diff - 360 * Deg ELSE diff

\* a smoothing factor num/den
Factor(num, den) == [num |-> num, den |-> den]
Times(x, factor) == (x * factor.num) \div factor.den

\* 0.15
SMOOTHING_FACTOR == Factor(3, 20)
\* 1.5 degrees
DEAD_ZONE == (3 * Deg) \div 2

\* mutant of WrapDiff: the difference is not wrapped
WrapDiffNone(current, target) == target - current

\* the wrapped difference computed by both versions of smoothAngle
WrapDiff(current, target) ==
    LET d0 == target - current
        d1 == IF d0 > 180 * Deg THEN d0 - 360 * Deg ELSE d0
    IN  IF d1 < 0 - 180 * Deg THEN d1 + 360 * Deg ELSE d1

\* mutant of smoothAngle: no test for null, which arithmetic takes as 0
smoothAngleNoNullTest(current, target, factor) ==
    LET from == IF current = Null THEN 0 ELSE current
        diff == WrapDiff(from, target)
    IN  IF Abs(diff) < DEAD_ZONE THEN from
        ELSE normalizeAngle(from + Times(diff, factor))

\* mutant of smoothAngle: a difference of exactly DEAD_ZONE is ignored too
smoothAngleInclusiveZone(current, target, factor) ==
    IF current = Null THEN target
    ELSE LET diff == WrapDiff(current, target)
         IN  IF Abs(diff) <= DEAD_ZONE THEN current
             ELSE normalizeAngle(current + Times(diff, factor))

\* mutant of smoothAngle: the difference is applied twice over instead of
\* scaled by the factor
smoothAngleOvershoot(current, target, factor) ==
    IF current = Null THEN target
    ELSE LET diff == WrapDiff(current, target)
         IN  IF Abs(diff) < DEAD_ZONE THEN current
             ELSE normalizeAngle(current + 2 * diff)

\* smoothAngle of the current page (with the dead zone)
smoothAngle(current, target, factor) ==
    IF current = Null THEN target
    ELSE LET diff == WrapDiff(current, target)
         IN  IF Abs(diff) < DEAD_ZONE THEN current
             ELSE normalizeAngle(current + Times(diff, factor))

\* smoothAngle of the earlier page (no dead zone)
smoothAngleLegacy(current, target, factor) ==
    IF current = Null THEN target
    ELSE normalizeAngle(current + Times(WrapDiff(current, target), factor))

\* an orientation event; webkitCompassHeading = Null stands for undefined
OrientationEvent(webkit, alpha, beta) ==
    [webkitCompassHeading |-> webkit, alpha |-> alpha, beta |-> beta]

\* mutant of RawHeading: 360 - alpha is taken without normalizeAngle
RawHeadingPlain(event) ==
    IF event.webkitCompassHeading # Null THEN event.webkitCompassHeading
    ELSE IF event.alpha # Null THEN 360 * Deg - event.alpha
    ELSE Null

\* rawHeading of handleOrientation
RawHeading(event) ==
    IF event.webkitCompassHeading # Null THEN event.webkitCompassHeading
    ELSE IF event.alpha # Null THEN normalizeAngle(360 * Deg - event.alpha)
    ELSE Null

\* mutant of RawTilt: the clamp to [0, 90] is left out
RawTiltUnclamped(beta) == 90 * Deg - beta

\* mutant of RawTilt: the branch for beta < 0 mirrors beta
RawTiltMirrored(beta) ==
    LET rawTilt == IF beta >= 0 /\ beta <= 90 * Deg THEN 90 * Deg - beta
                   ELSE IF beta < 0 THEN 90 * Deg + beta
                   ELSE 90 * Deg - beta
    IN  Max(0, Min(90 * Deg, rawTilt))

\* rawTilt of handleOrientation: the three branches, then the clamp
RawTilt(beta) ==
    LET rawTilt == IF beta >= 0 /\ beta <= 90 * Deg THEN 90 * Deg - beta
                   ELSE IF beta < 0 THEN 90 * Deg - beta
                   ELSE 90 * Deg - beta
    IN  Max(0, Min(90 * Deg, rawTilt))

\* rawTilt of the earlier page: one expression
RawTiltLegacy(beta) == Max(0, Min(90 * Deg, 90 * Deg - beta))

\* the smoothed tilt of handleOrientation
SmoothTilt(last, rawTilt, factor) ==
    IF last = Null THEN rawTilt
    ELSE last + Times(rawTilt - last, factor)

\* lastHeadingRef.current after handleOrientation(event)
HeadingAfter(last, event) ==
    IF RawHeading(event) # Null
    THEN smoothAngle(last, RawHeading(event), SMOOTHING_FACTOR)
    ELSE last

\* mutant of TiltAfter: a sample without a tilt clears the smoothed tilt
TiltAfterCoupled(last, event) ==
    IF event.beta # Null
    THEN SmoothTilt(last, RawTilt(event.beta), SMOOTHING_FACTOR)
    ELSE Null

\* lastTiltRef.current after handleOrientation(event)
TiltAfter(last, event) ==
    IF event.beta # Null
    THEN SmoothTilt(last, RawTilt(event.beta), SMOOTHING_FACTOR)
    ELSE last

\* the head of the orientation effect: the refs are cleared while not tracking
ResetRef(tracking, ref) == IF ~tracking THEN Null ELSE ref

(* ------------------------------ the matcher ---------------------------- *)

HEADING_TOLERANCE == 30
ELEVATION_TOLERANCE == 20
\* bestScore starts at Infinity
Infinity == 2147483647

\* matchedFlight = null
NoFlight ==
    [icao24 |-> "null", latitude |-> Null, longitude |-> Null,
     altitude |-> Null, on_ground |-> FALSE,
     bearing |-> Null, distance |-> Null, elevation |-> Null]

HeadingDiff(compassHeading, flight) == Abs(angleDiff(compassHeading, flight.bearing))
ElevationDiff(deviceTilt, flight) == Abs(deviceTilt - flight.elevation)
\* headingDiff * 1.5 + elevationDiff
Score(headingDiff, elevationDiff) == (headingDiff * 3) \div 2 + elevationDiff

\* mutants of Takes: a later flight of equal score replaces the best; the
\* tolerances are inclusive; the elevation tolerance is not tested
TakesTieLast(headingDiff, elevationDiff, score, bestScore) ==
    /\ headingDiff < HEADING_TOLERANCE * Deg
    /\ elevationDiff < ELEVATION_TOLERANCE * Deg
    /\ score <= bestScore
TakesInclusive(headingDiff, elevationDiff, score, bestScore) ==
    /\ headingDiff <= HEADING_TOLERANCE * Deg
    /\ elevationDiff <= ELEVATION_TOLERANCE * Deg
    /\ score < bestScore
TakesHeadingOnly(headingDiff, elevationDiff, score, bestScore) ==
    /\ headingDiff < HEADING_TOLERANCE * Deg
    /\ score < bestScore

\* the condition under which the loop takes a flight as the best so far
Takes(headingDiff, elevationDiff, score, bestScore) ==
    /\ headingDiff < HEADING_TOLERANCE * Deg
    /\ elevationDiff < ELEVATION_TOLERANCE * Deg
    /\ score < bestScore

\* for (const flight of flights) { ... } from position i on
RECURSIVE MatchLoop(_, _, _, _, _, _)
MatchLoop(compassHeading, deviceTilt, flights, i, bestMatch, bestScore) ==
    IF i > Len(flights) THEN bestMatch
    ELSE LET flight == flights[i]
             headingDiff == HeadingDiff(compassHeading, flight)
             elevationDiff == ElevationDiff(deviceTilt, flight)
             score == Score(headingDiff, elevationDiff)
         IN  IF Takes(headingDiff, elevationDiff, score, bestScore)
             THEN MatchLoop(compassHeading, deviceTilt, flights, i + 1, flight, score)
             ELSE MatchLoop(compassHeading, deviceTilt, flights, i + 1,
                            bestMatch, bestScore)

\* mutant of MatchEffect: the loop starts from the first flight as the best
MatchEffectSeeded(tracking, compassHeading, deviceTilt, flights) ==
    IF ~tracking \/ compassHeading = Null \/ deviceTilt = Null \/ Len(flights) = 0
    THEN NoFlight
    ELSE MatchLoop(compassHeading, deviceTilt, flights, 1, flights[1], Infinity)

\* the match effect: the value it gives to setMatchedFlight
MatchEffect(tracking, compassHeading, deviceTilt, flights) ==
    IF ~tracking \/ compassHeading = Null \/ deviceTilt = Null \/ Len(flights) = 0
    THEN NoFlight
    ELSE MatchLoop(compassHeading, deviceTilt, flights, 1, NoFlight, Infinity)

(* --------------------- lookup handlers: strings ------------------------ *)

\* codes, callsigns and airport names are sequences of one-character
\* strings, "" is <<>>; airline names and airport codes given by a route
\* provider are not taken apart and stay strings

\* toUpperCase on one character of the model's alphabet
UpperChar(c) ==
    CASE c = "a" -> "A" [] c = "b" -> "B" [] c = "e" -> "E" [] c = "h" -> "H"
      [] c = "l" -> "L" [] c = "q" -> "Q" [] c = "r" -> "R" [] c = "w" -> "W"
      [] c = "x" -> "X" [] c = "y" -> "Y" [] c = "z" -> "Z" [] OTHER -> c

RECURSIVE toUpperCase(_)
toUpperCase(s) ==
    IF s = <<>> THEN <<>> ELSE << UpperChar(Head(s)) >> \o toUpperCase(Tail(s))

RECURSIVE trimStart(_)
trimStart(s) == IF s # <<>> /\ Head(s) = " " THEN trimStart(Tail(s)) ELSE s

RECURSIVE trimEnd(_)
trimEnd(s) ==
    IF s # <<>> /\ s[Len(s)] = " " THEN trimEnd(SubSeq(s, 1, Len(s) - 1)) ELSE s

trim(s) == trimEnd(trimStart(s))

\* s.slice(start, end)
slice(s, start, end) == SubSeq(s, start + 1, Min(end, Len(s)))

\* a query parameter: absent, or present with a value
Param(present, value) == [present |-> present, value |-> value]

\* searchParams.get(name)?.trim().toUpperCase(): <<>> stands for undefined
\* as well as for "", both are falsy
NormalizedParam(param) ==
    IF param.present THEN toUpperCase(trim(param.value)) ELSE <<>>

(* ----------------------- GET /api/route (lookup) ----------------------- *)

\* 1 hour, in milliseconds
ROUTE_CACHE_TTL == 1000 * 60 * 60

\* getAirlineName: "" stands for undefined
getAirlineName(icao) ==
    IF icao = << "B", "A", "W" >> THEN "British Airways"
    ELSE IF icao = << "E", "Z", "Y" >> THEN "easyJet"
    ELSE ""

\* a || b on strings
OrElse(a, b) == IF a # "" THEN a ELSE b

\* a flight as a route provider gives it; "" and <<>> stand for a missing field
ProviderFlight(dep_iata, dep_icao, dep_name, arr_iata, arr_icao, arr_name, airline_name, flight_number) ==
    [dep_iata |-> dep_iata, dep_icao |-> dep_icao, dep_name |-> dep_name,
     arr_iata |-> arr_iata, arr_icao |-> arr_icao, arr_name |-> arr_name,
     airline_name |-> airline_name, flight_number |-> flight_number]

NoProviderFlight == ProviderFlight("", "", "", "", "", "", "", <<>>)

RouteInfo(origin, originName, destination, destinationName, airline, flightNumber) ==
    [origin |-> origin, originName |-> originName, destination |-> destination,
     destinationName |-> destinationName, airline |-> airline,
     flightNumber |-> flightNumber]

\* what a route provider's fetch does: kind "throw" (fetch or json rejects),
\* "notok" (response.ok false), "none" (no flight in the body), "flight"
RouteOutcome(kind, flight) == [kind |-> kind, flight |-> flight]

\* the RouteInfo built from the first flight of a provider's body, or the
\* airline name and flight number alone
InfoOf(outcome, airlineIcao, flightNumber) ==
    IF outcome.kind = "flight"
    THEN LET flight == outcome.flight
         IN  RouteInfo(OrElse(flight.dep_iata, flight.dep_icao), flight.dep_name,
                       OrElse(flight.arr_iata, flight.arr_icao), flight.arr_name,
                       OrElse(flight.airline_name, getAirlineName(airlineIcao)),
                       IF flight.flight_number # <<>> THEN flight.flight_number
                       ELSE flightNumber)
    ELSE RouteInfo("", "", "", "", getAirlineName(airlineIcao), flightNumber)

\* fetchFromAirLabs: threw tells whether the promise rejects
fetchFromAirLabs(outcome, airlineIcao, flightNumber) ==
    [threw |-> outcome.kind \in {"throw", "notok"},
     info |-> InfoOf(outcome, airlineIcao, flightNumber)]

fetchFromAviationStack(outcome, airlineIcao, flightNumber) ==
    [threw |-> outcome.kind \in {"throw", "notok"},
     info |-> InfoOf(outcome, airlineIcao, flightNumber)]

\* an entry of routeCache
RouteEntry(info, timestamp) ==
    [origin |-> info.origin, destination |-> info.destination,
     originName |-> info.originName, destinationName |-> info.destinationName,
     airline |-> info.airline, timestamp |-> timestamp]

\* Map.prototype.set
MapSet(map, key, value) ==
    [k \in DOMAIN map \cup {key} |-> IF k = key THEN value ELSE map[k]]

\* Map.prototype.has
MapHas(map, key) == key \in DOMAIN map

\* mutant of IsFresh: an entry whose age equals the TTL is still served
IsFreshInclusive(cache, key, t, ttl) ==
    MapHas(cache, key) /\ t - cache[key].timestamp <= ttl

\* cached && Date.now() - cached.timestamp < CACHE_TTL
IsFresh(cache, key, t, ttl) ==
    MapHas(cache, key) /\ t - cache[key].timestamp < ttl

\* the time an awaited provider fetch takes, in milliseconds
FetchLatency == 200

\* the body and status of a lookup response; calls lists the providers
\* fetched, hit tells whether the cache answered
LookupResponse(status, hasError, info, name, city, hit, calls) ==
    [status |-> status, hasError |-> hasError, info |-> info,
     name |-> name, city |-> city, hit |-> hit, calls |-> calls]

NoInfo == RouteInfo("", "", "", "", "", <<>>)

\* what a handler does: its response, the cache it leaves, the time it ends
Handled(response, cache, end) == [response |-> response, cache |-> cache, end |-> end]

\* mutant of HasRoute: a result counts only with both airports
HasBothEnds(info) == info.origin # "" /\ info.destination # ""

\* result.origin || result.destination
HasRoute(info) == info.origin # "" \/ info.destination # ""

\* mutant of RouteGET: the static answer is written to the cache as well
RouteGETCachesStatic(param, cache, t, airLabsKey, aviationStackKey, airlabs, aviationstack) ==
    LET callsign == NormalizedParam(param)
        airlineIcao == slice(callsign, 0, 3)
        flightNumber == slice(callsign, 3, Len(callsign))
        first == fetchFromAirLabs(airlabs, airlineIcao, flightNumber)
        afterFirst == IF airLabsKey THEN << "airlabs" >> ELSE <<>>
        tFirst == t + FetchLatency * Len(afterFirst)
        second == fetchFromAviationStack(aviationstack, airlineIcao, flightNumber)
        afterSecond == Append(afterFirst, "aviationstack")
        tSecond == tFirst + FetchLatency
        static == RouteInfo("", "", "", "", getAirlineName(airlineIcao), flightNumber)
        tStatic == IF aviationStackKey THEN tSecond ELSE tFirst
    IN  IF callsign = <<>>
        THEN Handled(LookupResponse(400, TRUE, NoInfo, <<>>, <<>>, FALSE, <<>>),
                     cache, t)
        ELSE IF IsFresh(cache, callsign, t, ROUTE_CACHE_TTL)
        THEN LET cached == cache[callsign]
             IN  Handled(LookupResponse(200, FALSE,
                             RouteInfo(cached.origin, cached.originName,
                                       cached.destination, cached.destinationName,
                                       cached.airline, <<>>),
                             <<>>, <<>>, TRUE, <<>>),
                         cache, t)
        ELSE IF airLabsKey /\ ~first.threw /\ HasRoute(first.info)
        THEN Handled(LookupResponse(200, FALSE, first.info, <<>>, <<>>, FALSE, afterFirst),
                     MapSet(cache, callsign, RouteEntry(first.info, tFirst)), tFirst)
        ELSE IF aviationStackKey /\ ~second.threw /\ HasRoute(second.info)
        THEN Handled(LookupResponse(200, FALSE, second.info, <<>>, <<>>, FALSE, afterSecond),
                     MapSet(cache, callsign, RouteEntry(second.info, tSecond)), tSecond)
        ELSE Handled(LookupResponse(200, FALSE, static, <<>>, <<>>, FALSE,
                         IF aviationStackKey THEN afterSecond ELSE afterFirst),
                     MapSet(cache, callsign, RouteEntry(static, tStatic)), tStatic)

\* GET of the route lookup with the provider chain; t is Date.now() when
\* the request arrives
RouteGET(param, cache, t, airLabsKey, aviationStackKey, airlabs, aviationstack) ==
    LET callsign == NormalizedParam(param)
        airlineIcao == slice(callsign, 0, 3)
        flightNumber == slice(callsign, 3, Len(callsign))
        first == fetchFromAirLabs(airlabs, airlineIcao, flightNumber)
        afterFirst == IF airLabsKey THEN << "airlabs" >> ELSE <<>>
        tFirst == t + FetchLatency * Len(afterFirst)
        second == fetchFromAviationStack(aviationstack, airlineIcao, flightNumber)
        afterSecond == Append(afterFirst, "aviationstack")
        tSecond == tFirst + FetchLatency
    IN  IF callsign = <<>>
        THEN Handled(LookupResponse(400, TRUE, NoInfo, <<>>, <<>>, FALSE, <<>>),
                     cache, t)
        ELSE IF IsFresh(cache, callsign, t, ROUTE_CACHE_TTL)
        THEN LET cached == cache[callsign]
             IN  Handled(LookupResponse(200, FALSE,
                             RouteInfo(cached.origin, cached.originName,
                                       cached.destination, cached.destinationName,
                                       cached.airline, <<>>),
                             <<>>, <<>>, TRUE, <<>>),
                         cache, t)
        ELSE IF airLabsKey /\ ~first.threw /\ HasRoute(first.info)
        THEN Handled(LookupResponse(200, FALSE, first.info, <<>>, <<>>, FALSE, afterFirst),
                     MapSet(cache, callsign, RouteEntry(first.info, tFirst)), tFirst)
        ELSE IF aviationStackKey /\ ~second.threw /\ HasRoute(second.info)
        THEN Handled(LookupResponse(200, FALSE, second.info, <<>>, <<>>, FALSE, afterSecond),
                     MapSet(cache, callsign, RouteEntry(second.info, tSecond)), tSecond)
        ELSE Handled(LookupResponse(200, FALSE,
                         RouteInfo("", "", "", "", getAirlineName(airlineIcao), flightNumber),
                         <<>>, <<>>, FALSE,
                         IF aviationStackKey THEN afterSecond ELSE afterFirst),
                     cache,
                     IF aviationStackKey THEN tSecond ELSE tFirst)

\* GET of the route lookup with AeroDataBox alone (src/app/api/route)
RouteGETLegacy(param, cache, t, rapidApiKey, aerodatabox) ==
    LET callsign == NormalizedParam(param)
        airlineIcao == slice(callsign, 0, 3)
        flightNumber == slice(callsign, 3, Len(callsign))
        static == RouteInfo("", "", "", "", getAirlineName(airlineIcao), flightNumber)
        result == InfoOf(aerodatabox, airlineIcao, flightNumber)
        tEnd == t + FetchLatency
        called == << "aerodatabox" >>
    IN  IF callsign = <<>>
        THEN Handled(LookupResponse(400, TRUE, NoInfo, <<>>, <<>>, FALSE, <<>>),
                     cache, t)
        ELSE IF IsFresh(cache, callsign, t, ROUTE_CACHE_TTL)
        THEN LET cached == cache[callsign]
             IN  Handled(LookupResponse(200, FALSE,
                             RouteInfo(cached.origin, "", cached.destination, "",
                                       cached.airline, <<>>),
                             <<>>, <<>>, TRUE, <<>>),
                         cache, t)
        ELSE IF ~rapidApiKey
        THEN Handled(LookupResponse(200, TRUE, static, <<>>, <<>>, FALSE, <<>>), cache, t)
        ELSE IF aerodatabox.kind \in {"throw", "notok"}
        THEN Handled(LookupResponse(200, TRUE, static, <<>>, <<>>, FALSE, called),
                     cache, tEnd)
        ELSE IF aerodatabox.kind = "flight"
        THEN Handled(LookupResponse(200, FALSE, result, <<>>, <<>>, FALSE, called),
                     IF result.origin # "" /\ result.destination # ""
                     THEN MapSet(cache, callsign,
                                 RouteEntry(RouteInfo(result.origin, "", result.destination,
                                                      "", result.airline, <<>>), tEnd))
                     ELSE cache,
                     tEnd)
        ELSE Handled(LookupResponse(200, FALSE, static, <<>>, <<>>, FALSE, called),
                     cache, tEnd)

(* --------------------------- GET /api/airports ------------------------- *)

\* 24 hours, in milliseconds
AIRPORT_CACHE_TTL == 1000 * 60 * 60 * 24

\* the built-in table, of which the model keeps one row
AIRPORTS ==
    [k \in { << "L", "H", "R" >> } |->
        [name |-> << "H", "e", "a", "t", "h", "r", "o", "w" >>,
         city |-> << "L", "o", "n", "d", "o", "n" >>]]

\* what the AirLabs airport fetch does: kind "throw", "notok", "none" (no
\* airport in the body) or "airport" with name, city and country_code
AirportOutcome(kind, name, city, country_code) ==
    [kind |-> kind, name |-> name, city |-> city, country_code |-> country_code]

\* a || b on sequences of characters
OrElseSeq(a, b) == IF a # <<>> THEN a ELSE b

\* mutant of AirportGET: a rejected AirLabs fetch is not caught
AirportGETUncaught(param, cache, t, apiKey, airlabs) ==
    LET code == NormalizedParam(param)
        tEnd == t + FetchLatency
        called == << "airlabs" >>
        result == [name |-> OrElseSeq(airlabs.name, code),
                   city |-> OrElseSeq(airlabs.city, airlabs.country_code)]
    IN  IF code = <<>>
        THEN Handled(LookupResponse(400, TRUE, NoInfo, <<>>, <<>>, FALSE, <<>>),
                     cache, t)
        ELSE IF MapHas(AIRPORTS, code)
        THEN Handled(LookupResponse(200, FALSE, NoInfo, AIRPORTS[code].name,
                                    AIRPORTS[code].city, FALSE, <<>>),
                     cache, t)
        ELSE IF IsFresh(cache, code, t, AIRPORT_CACHE_TTL)
        THEN Handled(LookupResponse(200, FALSE, NoInfo, cache[code].name,
                                    cache[code].city, TRUE, <<>>),
                     cache, t)
        ELSE IF apiKey /\ airlabs.kind = "throw"
        THEN Handled(LookupResponse(500, TRUE, NoInfo, <<>>, <<>>, FALSE, called),
                     cache, tEnd)
        ELSE IF apiKey /\ airlabs.kind = "airport"
        THEN Handled(LookupResponse(200, FALSE, NoInfo, result.name, result.city,
                                    FALSE, called),
                     MapSet(cache, code,
                            [name |-> result.name, city |-> result.city,
                             timestamp |-> tEnd]),
                     tEnd)
        ELSE Handled(LookupResponse(200, FALSE, NoInfo, code, <<>>, FALSE,
                                    IF apiKey THEN called ELSE <<>>),
                     cache,
                     IF apiKey THEN tEnd ELSE t)

AirportGET(param, cache, t, apiKey, airlabs) ==
    LET code == NormalizedParam(param)
        tEnd == t + FetchLatency
        called == << "airlabs" >>
        result == [name |-> OrElseSeq(airlabs.name, code),
                   city |-> OrElseSeq(airlabs.city, airlabs.country_code)]
    IN  IF code = <<>>
        THEN Handled(LookupResponse(400, TRUE, NoInfo, <<>>, <<>>, FALSE, <<>>),
                     cache, t)
        ELSE IF MapHas(AIRPORTS, code)
        THEN Handled(LookupResponse(200, FALSE, NoInfo, AIRPORTS[code].name,
                                    AIRPORTS[code].city, FALSE, <<>>),
                     cache, t)
        ELSE IF IsFresh(cache, code, t, AIRPORT_CACHE_TTL)
        THEN Handled(LookupResponse(200, FALSE, NoInfo, cache[code].name,
                                    cache[code].city, TRUE, <<>>),
                     cache, t)
        ELSE IF apiKey /\ airlabs.kind = "airport"
        THEN Handled(LookupResponse(200, FALSE, NoInfo, result.name, result.city,
                                    FALSE, called),
                     MapSet(cache, code,
                            [name |-> result.name, city |-> result.city,
                             timestamp |-> tEnd]),
                     tEnd)
        ELSE Handled(LookupResponse(200, FALSE, NoInfo, code, <<>>, FALSE,
                                    IF apiKey THEN called ELSE <<>>),
                     cache,
                     IF apiKey THEN tEnd ELSE t)

(* ------------------------------- state --------------------------------- *)

VARIABLES
    \* the page component Home
    location,          \* {lat, lon} or NoLocation
    locationError,     \* whether geolocation failed
    flights,           \* the aircraft list
    compassHeading,    \* smoothed heading shown and matched, or Null
    deviceTilt,        \* smoothed tilt shown and matched, or Null
    permissionState,   \* "prompt", "granted", "denied", "unsupported"
    isTracking,
    matchedFlight,     \* a flight of the list, or NoFlight
    lastHeadingRef,    \* lastHeadingRef.current
    lastTiltRef,       \* lastTiltRef.current
    \* the environment of the page and of the route handler
    doe,               \* whether window has DeviceOrientationEvent
    apiKey,            \* whether RAPIDAPI_KEY is set
    \* polls
    issued,            \* number of calls of fetchFlights that reached fetch
    inflight,          \* the polls whose fetch has not settled
    \* observation
    lastGood,          \* the list delivered by the most recent successful poll
    nEvents,           \* orientation events handled
    lastEvent,         \* the orientation event handled last, or NoEvent
    nApplied,          \* poll responses handled
    installedBy,       \* the poll whose response set the list, or 0
    \* SpecServer: one request and its response
    sIn, sOut,
    \* SpecSmooth: the inputs drawn and the results
    pIn, pOut,
    \* SpecGeo: the arguments drawn and the value returned
    gIn, gOut,
    \* SpecLookup: the route and airport lookup handlers
    lEnv,              \* the handler version deployed and the keys configured
    now,               \* Date.now(), in milliseconds
    routeCache,        \* callsign -> entry
    airportCache,      \* code -> entry
    nLookups,          \* requests handled
    ticked,            \* time has passed since the last request
    lIn, lOut          \* the last request and its response

clientVars ==
    << location, locationError, flights, compassHeading, deviceTilt,
       permissionState, isTracking, matchedFlight, lastHeadingRef, lastTiltRef,
       doe, apiKey, issued, inflight, lastGood, nEvents, lastEvent, nApplied,
       installedBy >>
serverVars == << sIn, sOut >>
smoothVars == << pIn, pOut, gIn, gOut >>
lookupVars ==
    << lEnv, now, routeCache, airportCache, nLookups, ticked, lIn, lOut >>
vars == << clientVars, serverVars, smoothVars, lookupVars >>

\* no orientation event has been handled
NoEvent == [webkitCompassHeading |-> Null, alpha |-> Null, beta |-> Null]

NoLocation == [lat |-> Null, lon |-> Null]
Observer == [lat |-> ObserverLat, lon |-> ObserverLon]

NoRequest == [valid |-> FALSE, lat |-> Null, lon |-> Null]
NoOutcome == [kind |-> "none", data |-> <<>>]
NoResponse == Response(0, FALSE, <<>>, "none", FALSE, <<>>)
ServerIdle ==
    /\ sIn = [query |-> [lat |-> [present |-> FALSE, value |-> << >>],
                         lon |-> [present |-> FALSE, value |-> << >>]],
              req |-> NoRequest, apiKey |-> FALSE, adsb |-> NoOutcome,
              opensky |-> NoOutcome, slow |-> {}, handler |-> "none"]
    /\ sOut = NoResponse

NoProbe == [op |-> "none", current |-> Null, target |-> Null,
            factor |-> Factor(1, 1)]
NoGeoProbe == [op |-> "none", args |-> << >>]
GeoIdle ==
    /\ gIn = NoGeoProbe
    /\ gOut = [done |-> FALSE, result |-> Null]
SmoothIdle ==
    /\ pIn = NoProbe
    /\ pOut = [done |-> FALSE, result |-> Null, legacy |-> Null]
    /\ GeoIdle

\* a Map without entries
EmptyMap == << >>

NoRouteOutcome == RouteOutcome("none", NoProviderFlight)
NoAirportOutcome == AirportOutcome("none", <<>>, <<>>, <<>>)
NoLookupResponse == LookupResponse(0, FALSE, NoInfo, <<>>, <<>>, FALSE, <<>>)
NoLookup ==
    [handler |-> "none", param |-> Param(FALSE, <<>>), at |-> 0,
     first |-> NoRouteOutcome, second |-> NoRouteOutcome,
     airport |-> NoAirportOutcome, before |-> EmptyMap]
LookupIdle ==
    /\ lEnv = [version |-> "none", airLabsKey |-> FALSE,
               aviationStackKey |-> FALSE, rapidApiKey |-> FALSE]
    /\ now = 0
    /\ routeCache = EmptyMap
    /\ airportCache = EmptyMap
    /\ nLookups = 0
    /\ ticked = FALSE
    /\ lIn = NoLookup
    /\ lOut = NoLookupResponse

ClientIdle ==
    /\ location = NoLocation
    /\ locationError = FALSE
    /\ flights = <<>>
    /\ compassHeading = Null
    /\ deviceTilt = Null
    /\ permissionState = "prompt"
    /\ isTracking = FALSE
    /\ matchedFlight = NoFlight
    /\ lastHeadingRef = Null
    /\ lastTiltRef = Null
    /\ doe = FALSE
    /\ apiKey = FALSE
    /\ issued = 0
    /\ inflight = {}
    /\ lastGood = <<>>
    /\ nEvents = 0
    /\ lastEvent = NoEvent
    /\ nApplied = 0
    /\ installedBy = 0

(* ------------------------------ the client ----------------------------- *)

\* the state after the first render and its effects
Init ==
    /\ location = NoLocation
    /\ locationError = FALSE
    /\ flights = <<>>
    /\ compassHeading = Null
    /\ deviceTilt = Null
    /\ doe \in BOOLEAN
    \* effect "Check for unsupported"
    /\ permissionState = IF ~doe THEN "unsupported" ELSE "prompt"
    /\ isTracking = FALSE
    \* orientation effect, not tracking
    /\ lastHeadingRef = ResetRef(isTracking, Null)
    /\ lastTiltRef = ResetRef(isTracking, Null)
    \* match effect
    /\ matchedFlight = MatchEffect(isTracking, compassHeading, deviceTilt, flights)
    /\ apiKey \in BOOLEAN
    /\ issued = 0
    /\ inflight = {}
    /\ lastGood = <<>>
    /\ nEvents = 0
    /\ lastEvent = NoEvent
    /\ nApplied = 0
    /\ installedBy = 0
    /\ ServerIdle
    /\ SmoothIdle
    /\ LookupIdle

\* navigator.geolocation.getCurrentPosition succeeds: setLocation, and the
\* polling effect calls fetchFlights at once
GeolocationSuccess ==
    /\ location = NoLocation /\ ~locationError
    /\ location' = Observer
    /\ issued' = issued + 1
    /\ inflight' = inflight \cup {issued + 1}
    /\ UNCHANGED << locationError, flights, compassHeading, deviceTilt,
                    permissionState, isTracking, matchedFlight, lastHeadingRef,
                    lastTiltRef, doe, apiKey, lastGood, nEvents, lastEvent,
                    nApplied, installedBy >>
    /\ UNCHANGED << serverVars, smoothVars, lookupVars >>

\* geolocation is missing or fails: setLocationError
GeolocationError ==
    /\ location = NoLocation /\ ~locationError
    /\ locationError' = TRUE
    /\ UNCHANGED << location, flights, compassHeading, deviceTilt,
                    permissionState, isTracking, matchedFlight, lastHeadingRef,
                    lastTiltRef, doe, apiKey, issued, inflight, lastGood,
                    nEvents, lastEvent, nApplied, installedBy >>
    /\ UNCHANGED << serverVars, smoothVars, lookupVars >>

\* setInterval(fetchFlights, 10000) fires: fetchFlights up to its await
IntervalTick ==
    /\ location # NoLocation
    /\ issued < MaxPolls
    /\ issued' = issued + 1
    /\ inflight' = inflight \cup {issued + 1}
    /\ UNCHANGED << location, locationError, flights, compassHeading, deviceTilt,
                    permissionState, isTracking, matchedFlight, lastHeadingRef,
                    lastTiltRef, doe, apiKey, lastGood, nEvents, lastEvent,
                    nApplied, installedBy >>
    /\ UNCHANGED << serverVars, smoothVars, lookupVars >>

\* the provider answers the client's polls are drawn from
ClientPayloads ==
    { << RawB, RawA >>, << RawA, RawC >>, << RawE, RawD >>, << RawF >>,
      << RawF, RawB >>, << RawG >> }
ClientOutcomes ==
    { Outcome("throw", <<>>), Outcome("notok", <<>>), Outcome("nodata", <<>>) }
    \cup { Outcome("ok", d) : d \in ClientPayloads }

\* what the route handler can answer to the client's request
ObserverRequest == [valid |-> TRUE, lat |-> ObserverLat, lon |-> ObserverLon]
AnswersWithKey ==
    { GET(ObserverRequest, TRUE, adsb, opensky) :
          adsb \in ClientOutcomes, opensky \in ClientOutcomes }
AnswersWithoutKey ==
    { GET(ObserverRequest, FALSE, adsb, opensky) :
          adsb \in ClientOutcomes, opensky \in ClientOutcomes }
Answers(key) == IF key THEN AnswersWithKey ELSE AnswersWithoutKey

\* if (data.flights) setFlights(data.flights): an array, even an empty one,
\* is truthy; a body without the field is not
FlightsAfter(data, held) == IF data.hasFlights THEN data.flights ELSE held

\* mutant of FetchSettles: a poll response also clears the smoothed tilt
FetchSettlesClearsTilt(id, transport, data) ==
    /\ id \in inflight
    /\ inflight' = inflight \ {id}
    /\ nApplied' = nApplied + 1
    /\ installedBy' = IF transport /\ data.hasFlights THEN id ELSE installedBy
    /\ LET flightsAfter == IF transport THEN FlightsAfter(data, flights)
                           ELSE flights
       IN  /\ flights' = flightsAfter
           /\ deviceTilt' = Null
           /\ lastTiltRef' = Null
           /\ matchedFlight' =
                  MatchEffect(isTracking, compassHeading, Null, flightsAfter)
           /\ lastGood' = IF transport /\ data.status = 200 /\ ~data.hasError
                          THEN data.flights ELSE lastGood
    /\ UNCHANGED << location, locationError, compassHeading,
                    permissionState, isTracking, lastHeadingRef,
                    doe, apiKey, issued, nEvents, lastEvent >>
    /\ UNCHANGED << serverVars, smoothVars, lookupVars >>

\* mutant of FetchSettles: the match effect does not run after setFlights
FetchSettlesKeepsMatch(id, transport, data) ==
    /\ id \in inflight
    /\ inflight' = inflight \ {id}
    /\ nApplied' = nApplied + 1
    /\ installedBy' = IF transport /\ data.hasFlights THEN id ELSE installedBy
    /\ LET flightsAfter == IF transport THEN FlightsAfter(data, flights)
                           ELSE flights
       IN  /\ flights' = flightsAfter
           /\ lastGood' = IF transport /\ data.status = 200 /\ ~data.hasError
                          THEN data.flights ELSE lastGood
    /\ UNCHANGED << location, locationError, compassHeading, deviceTilt,
                    permissionState, isTracking, lastHeadingRef, lastTiltRef,
                    doe, apiKey, issued, nEvents, lastEvent, matchedFlight >>
    /\ UNCHANGED << serverVars, smoothVars, lookupVars >>

\* fetchFlights after its await, for poll id: either fetch or res.json()
\* throws (transport = FALSE), or the route handler answers with data
FetchSettles(id, transport, data) ==
    /\ id \in inflight
    /\ inflight' = inflight \ {id}
    /\ nApplied' = nApplied + 1
    /\ installedBy' = IF transport /\ data.hasFlights THEN id ELSE installedBy
    /\ LET flightsAfter == IF transport THEN FlightsAfter(data, flights)
                           ELSE flights
       IN  /\ flights' = flightsAfter
           /\ matchedFlight' =
                  MatchEffect(isTracking, compassHeading, deviceTilt, flightsAfter)
           /\ lastGood' = IF transport /\ data.status = 200 /\ ~data.hasError
                          THEN data.flights ELSE lastGood
    /\ UNCHANGED << location, locationError, compassHeading, deviceTilt,
                    permissionState, isTracking, lastHeadingRef, lastTiltRef,
                    doe, apiKey, issued, nEvents, lastEvent >>
    /\ UNCHANGED << serverVars, smoothVars, lookupVars >>

FetchResolves ==
    \E id \in inflight, data \in Answers(apiKey) : FetchSettles(id, TRUE, data)

FetchRejects ==
    \E id \in inflight : FetchSettles(id, FALSE, NoResponse)

\* the Start Tracking button is rendered
ButtonShown ==
    ~isTracking /\ permissionState \notin {"unsupported", "denied"}

\* mutant of RequestPermission: tracking is turned on whatever the answer
RequestPermissionAlwaysTracks(hasRequest, answer) ==
    /\ ButtonShown
    /\ doe
    /\ LET permission == IF ~hasRequest THEN "granted"
                         ELSE IF answer = "throw" THEN "denied" ELSE answer
           tracking == TRUE
       IN  /\ permissionState' = permission
           /\ isTracking' = tracking
           /\ lastHeadingRef' = ResetRef(tracking, lastHeadingRef)
           /\ lastTiltRef' = ResetRef(tracking, lastTiltRef)
           /\ matchedFlight' =
                  MatchEffect(tracking, compassHeading, deviceTilt, flights)
    /\ UNCHANGED << location, locationError, flights, compassHeading, deviceTilt,
                    doe, apiKey, issued, inflight, lastGood, nEvents, lastEvent,
                    nApplied, installedBy >>
    /\ UNCHANGED << serverVars, smoothVars, lookupVars >>

\* requestPermission.  hasRequest: DeviceOrientationEvent.requestPermission
\* is a function; answer: what it resolves to ("granted", "denied"), or
\* "throw" when it rejects
RequestPermission(hasRequest, answer) ==
    /\ ButtonShown
    /\ doe
    /\ LET permission == IF ~hasRequest THEN "granted"
                         ELSE IF answer = "throw" THEN "denied" ELSE answer
           tracking == IF ~hasRequest THEN TRUE ELSE answer = "granted"
       IN  /\ permissionState' = permission
           /\ isTracking' = tracking
           /\ lastHeadingRef' = ResetRef(tracking, lastHeadingRef)
           /\ lastTiltRef' = ResetRef(tracking, lastTiltRef)
           /\ matchedFlight' =
                  MatchEffect(tracking, compassHeading, deviceTilt, flights)
    /\ UNCHANGED << location, locationError, flights, compassHeading, deviceTilt,
                    doe, apiKey, issued, inflight, lastGood, nEvents, lastEvent,
                    nApplied, installedBy >>
    /\ UNCHANGED << serverVars, smoothVars, lookupVars >>

Permission ==
    \E hasRequest \in BOOLEAN, answer \in {"granted", "denied", "throw"} :
        RequestPermission(hasRequest, answer)

\* mutant of Listening: the listener is registered on mount
ListeningAlways(tracking) == TRUE

\* the listener is registered while isTracking
Listening(tracking) == tracking

\* the orientation events the sensor delivers
ClientEvents ==
    { OrientationEvent(90 * Deg, Null, 80 * Deg),
      OrientationEvent(Null, 0, Null),
      OrientationEvent(Null, Null, 0 - 20 * Deg),
      OrientationEvent(92 * Deg, 10 * Deg, 80 * Deg),
      OrientationEvent(91 * Deg, Null, 120 * Deg) }

\* mutant of HandleOrientation: the matcher keeps its earlier result instead
\* of evaluating from scratch
HandleOrientationKeepsMatch(event) ==
    /\ Listening(isTracking)
    /\ nEvents < MaxEvents
    /\ nEvents' = nEvents + 1
    /\ lastEvent' = event
    /\ LET heading == HeadingAfter(lastHeadingRef, event)
           tilt == TiltAfter(lastTiltRef, event)
           headingState == IF RawHeading(event) # Null THEN heading
                           ELSE compassHeading
           tiltState == IF event.beta # Null THEN tilt ELSE deviceTilt
       IN  /\ lastHeadingRef' = heading
           /\ lastTiltRef' = tilt
           /\ compassHeading' = headingState
           /\ deviceTilt' = tiltState
           /\ matchedFlight' =
                  IF matchedFlight # NoFlight THEN matchedFlight
                  ELSE MatchEffect(isTracking, headingState, tiltState, flights)
    /\ UNCHANGED << location, locationError, flights, permissionState, isTracking,
                    doe, apiKey, issued, inflight, lastGood, nApplied, installedBy >>
    /\ UNCHANGED << serverVars, smoothVars, lookupVars >>

\* handleOrientation(event), and the match effect that follows
HandleOrientation(event) ==
    /\ Listening(isTracking)
    /\ nEvents < MaxEvents
    /\ nEvents' = nEvents + 1
    /\ lastEvent' = event
    /\ LET heading == HeadingAfter(lastHeadingRef, event)
           tilt == TiltAfter(lastTiltRef, event)
           headingState == IF RawHeading(event) # Null THEN heading
                           ELSE compassHeading
           tiltState == IF event.beta # Null THEN tilt ELSE deviceTilt
       IN  /\ lastHeadingRef' = heading
           /\ lastTiltRef' = tilt
           /\ compassHeading' = headingState
           /\ deviceTilt' = tiltState
           /\ matchedFlight' = MatchEffect(isTracking, headingState, tiltState, flights)
    /\ UNCHANGED << location, locationError, flights, permissionState, isTracking,
                    doe, apiKey, issued, inflight, lastGood, nApplied, installedBy >>
    /\ UNCHANGED << serverVars, smoothVars, lookupVars >>

Orientation == \E event \in ClientEvents : HandleOrientation(event)

Next ==
    \/ GeolocationSuccess
    \/ GeolocationError
    \/ IntervalTick
    \/ FetchResolves
    \/ FetchRejects
    \/ Permission
    \/ Orientation

Spec == Init /\ [][Next]_vars

(* ------------------------- SpecServer: one GET ------------------------- *)

\* GET of the earlier route file: OpenSky only, a 429 answered like any
\* other failed status
GETLegacy(req, opensky) ==
    IF ~req.valid
    THEN Response(400, FALSE, <<>>, "none", TRUE, <<>>)
    ELSE IF opensky.kind = "throw"
    THEN Response(200, TRUE, <<>>, "none", TRUE, << "opensky" >>)
    ELSE IF opensky.kind = "notok"
    THEN Response(200, TRUE, <<>>, "none", TRUE, << "opensky" >>)
    ELSE IF opensky.kind = "nodata" \/ Len(opensky.data) = 0
    THEN Response(200, TRUE, <<>>, "none", FALSE, << "opensky" >>)
    ELSE Response(200, TRUE,
                  SortByDistance(MapFilter("opensky", req.lat, req.lon, opensky.data)),
                  "none", FALSE, << "opensky" >>)

Range(s) == { s[i] : i \in 1..Len(s) }

RECURSIVE SeqsUpTo(_, _)
SeqsUpTo(S, n) ==
    IF n = 0 THEN { <<>> }
    ELSE LET shorter == SeqsUpTo(S, n - 1)
         IN  shorter \cup { Append(q, x) : q \in shorter, x \in S }

ServerPayloads == SeqsUpTo(RawRecords, MaxAc) \ { <<>> }
ServerOutcomes ==
    { Outcome("throw", <<>>), Outcome("notok", <<>>), Outcome("nodata", <<>>),
      Outcome("ok", <<>>) }
    \cup { Outcome("ok", d) : d \in ServerPayloads }
(* --------------------- the query of GET /api/flights ------------------- *)

DigitChars == << "0", "1", "2", "3", "4", "5", "6", "7", "8", "9" >>
IsDigit(c) == \E d \in 1..10 : DigitChars[d] = c
DigitValue(c) == (CHOOSE d \in 1..10 : DigitChars[d] = c) - 1

\* the longest prefix of s made of digits
RECURSIVE LeadingDigits(_)
LeadingDigits(s) ==
    IF s = <<>> \/ ~IsDigit(Head(s)) THEN <<>>
    ELSE << Head(s) >> \o LeadingDigits(Tail(s))

RECURSIVE DecimalValue(_)
DecimalValue(digits) ==
    IF digits = <<>> THEN 0
    ELSE 10 * DecimalValue(SubSeq(digits, 1, Len(digits) - 1))
         + DigitValue(digits[Len(digits)])

\* the first six fraction digits, as millionths
Millionths(frac) ==
    DecimalValue(SubSeq(frac \o << "0", "0", "0", "0", "0", "0" >>, 1, 6))

\* parseFloat(string), in millionths: leading white space is skipped, the
\* longest prefix that is a decimal literal is converted and whatever follows
\* it is ignored; NaN when there is no such prefix.  Exponents and "Infinity"
\* are not among the strings of the model.
parseFloat(string) ==
    LET s == trimStart(string)
        signed == s # <<>> /\ Head(s) \in { "-", "+" }
        body == IF signed THEN Tail(s) ELSE s
        int == LeadingDigits(body)
        rest == SubSeq(body, Len(int) + 1, Len(body))
        frac == IF rest # <<>> /\ Head(rest) = "." THEN LeadingDigits(Tail(rest))
                ELSE <<>>
        magnitude == DecimalValue(int) * 1000000 + Millionths(frac)
    IN  IF int = <<>> /\ frac = <<>> THEN NaN
        ELSE IF signed /\ Head(s) = "-" THEN 0 - magnitude
        ELSE magnitude

\* searchParams.get(name) || ""
GetOrEmpty(param) == IF param.present THEN param.value ELSE <<>>

\* the head of GET: lat and lon parsed, isNaN(lat) || isNaN(lon) tested
ParseQuery(query) ==
    LET lat == parseFloat(GetOrEmpty(query.lat))
        lon == parseFloat(GetOrEmpty(query.lon))
    IN  IF lat = NaN \/ lon = NaN
        THEN [valid |-> FALSE, lat |-> Null, lon |-> Null]
        ELSE [valid |-> TRUE, lat |-> lat, lon |-> lon]

Query(lat, lon) == [lat |-> lat, lon |-> lon]
Absent == Param(FALSE, <<>>)
Given(value) == Param(TRUE, value)
ObserverLatText == << "5", "1", ".", "5", "0", "7", "4" >>
ObserverLonText == << "-", "0", ".", "1", "2", "7", "8" >>

\* the queries GET is called with
ServerQueries ==
    { Query(Given(ObserverLatText), Given(ObserverLonText)),
      Query(Given(ObserverLatText \o << "a", "b", "c" >>),
            Given(<< " " >> \o ObserverLonText \o << "x" >>)),
      Query(Given(<< "a", "b", "c" >>), Given(ObserverLonText)),
      Query(Given(ObserverLatText), Given(<< "-" >>)),
      Query(Given(ObserverLatText), Absent),
      Query(Given(<<>>), Given(<< "x" >>)),
      Query(Absent, Absent) }

ServerRequests == { ParseQuery(query) : query \in ServerQueries }

InitServer ==
    /\ ClientIdle
    /\ ServerIdle
    /\ SmoothIdle
    /\ LookupIdle

\* how long a provider's fetch takes, in milliseconds
Elapsed(provider, slow) == IF provider \in slow THEN 20000 ELSE 200

\* the providers GET fetches from when ADSB Exchange, if fetched, gives adsb
Calls(req, key, adsb) == Range(GET(req, key, adsb, NoOutcome).calls)

\* what a provider's fetch may give: nothing when it is not fetched
OutcomesOf(provider, fetched) ==
    IF provider \in fetched THEN ServerOutcomes ELSE { NoOutcome }

\* the fetches that may take longer than the timeout: any that is made
SlowSets(fetched) == SUBSET fetched

\* GET.  adsb and opensky are what each provider's fetch gives when it is
\* left to settle, slow the providers whose fetch takes more than 15 s
ServeGET ==
    /\ sOut = NoResponse
    /\ \E query \in ServerQueries, key \in BOOLEAN :
        \E req \in { ParseQuery(query) } :
          \E adsb \in OutcomesOf("adsbexchange", Calls(req, key, NoOutcome)) :
              \E opensky \in OutcomesOf("opensky", Calls(req, key, adsb)) :
                  \E slow \in SlowSets(Calls(req, key, adsb)) :
                      /\ sIn' = [query |-> query,
                                 req |-> req, apiKey |-> key, adsb |-> adsb,
                                 opensky |-> opensky, slow |-> slow,
                                 handler |-> "GET"]
                      /\ sOut' = GET(req, key,
                                     FetchPlain(adsb, Elapsed("adsbexchange", slow)),
                                     FetchWithAbort(opensky, Elapsed("opensky", slow)))
    /\ UNCHANGED << clientVars, smoothVars, lookupVars >>

ServeLegacyGET ==
    /\ sOut = NoResponse
    /\ \E query \in ServerQueries :
        \E req \in { ParseQuery(query) } :
          \E opensky \in OutcomesOf("opensky",
                                    Range(GETLegacy(req, NoOutcome).calls)) :
              \E slow \in SlowSets(Range(GETLegacy(req, NoOutcome).calls)) :
                  /\ sIn' = [query |-> query,
                             req |-> req, apiKey |-> FALSE, adsb |-> NoOutcome,
                             opensky |-> opensky, slow |-> slow,
                             handler |-> "GETLegacy"]
                  /\ sOut' = GETLegacy(req,
                                       FetchPlain(opensky, Elapsed("opensky", slow)))
    /\ UNCHANGED << clientVars, smoothVars, lookupVars >>

NextServer == ServeGET \/ ServeLegacyGET

SpecServer == InitServer /\ [][NextServer]_vars

(* ------------------- SpecSmooth: the smoothing functions --------------- *)

ProbeFactors == { Factor(1, 2), Factor(3, 20), Factor(3, 10), Factor(1, 1) }

\* angles in [0, 360), in half degrees
ProbeHalfDegrees == { 0, 1, 2, 3, 4, 20, 90, 180, 358, 359, 360, 361, 540, 700, 717, 718, 719 }
ProbeAngles == { h * (Deg \div 2) : h \in ProbeHalfDegrees }

\* device beta in [-180, 180], in degrees
ProbeBetaDegrees == { 0 - 180, 0 - 90, 0 - 20, 0 - 1, 0, 1, 45, 80, 89, 90, 91, 120, 180 }
ProbeBetas == { b * Deg : b \in ProbeBetaDegrees }
ProbeTilts == { 0, 10 * Deg, 45 * Deg, 90 * Deg }

InitSmooth ==
    /\ ClientIdle
    /\ ServerIdle
    /\ LookupIdle
    /\ GeoIdle
    /\ pOut = [done |-> FALSE, result |-> Null, legacy |-> Null]
    /\ \/ /\ pIn \in [op : {"smoothAngle"}, current : ProbeAngles \cup {Null},
                      target : ProbeAngles, factor : ProbeFactors]
       \/ /\ pIn \in [op : {"tilt"}, current : ProbeTilts \cup {Null},
                      target : ProbeBetas, factor : ProbeFactors]

\* smoothAngle(current, target, factor), in both versions
ApplySmoothAngle ==
    /\ pIn.op = "smoothAngle" /\ ~pOut.done
    /\ pOut' = [done |-> TRUE,
                result |-> smoothAngle(pIn.current, pIn.target, pIn.factor),
                legacy |-> smoothAngleLegacy(pIn.current, pIn.target, pIn.factor)]
    /\ UNCHANGED << pIn, gIn, gOut, clientVars, serverVars, lookupVars >>

\* the tilt branch of handleOrientation on beta = target, in both versions
ApplyTilt ==
    /\ pIn.op = "tilt" /\ ~pOut.done
    /\ pOut' = [done |-> TRUE,
                result |-> SmoothTilt(pIn.current, RawTilt(pIn.target), pIn.factor),
                legacy |-> SmoothTilt(pIn.current, RawTiltLegacy(pIn.target), pIn.factor)]
    /\ UNCHANGED << pIn, gIn, gOut, clientVars, serverVars, lookupVars >>

NextSmooth == ApplySmoothAngle \/ ApplyTilt

SpecSmooth == InitSmooth /\ [][NextSmooth]_vars

(* ------------------- SpecGeo: the geo-math functions ------------------- *)

\* the pairs of positions and the (distance, altitude) pairs tabulated
GeoPairs == { << r[1], r[2], r[3], r[4] >> : r \in GeoTable }
ElevationPairs == { << t[1], t[2] >> : t \in ElevationTable }

InitGeo ==
    /\ ClientIdle
    /\ ServerIdle
    /\ LookupIdle
    /\ pIn = NoProbe
    /\ pOut = [done |-> FALSE, result |-> Null, legacy |-> Null]
    /\ gOut = [done |-> FALSE, result |-> Null]
    /\ \/ gIn \in [op : {"bearing", "distance"}, args : GeoPairs]
       \/ gIn \in [op : {"elevation"}, args : ElevationPairs]

\* calculateBearing(lat1, lon1, lat2, lon2)
ApplyBearing ==
    /\ gIn.op = "bearing" /\ ~gOut.done
    /\ gOut' = [done |-> TRUE,
                result |-> calculateBearing(gIn.args[1], gIn.args[2],
                                            gIn.args[3], gIn.args[4])]
    /\ UNCHANGED << gIn, pIn, pOut, clientVars, serverVars, lookupVars >>

\* calculateDistance(lat1, lon1, lat2, lon2)
ApplyDistance ==
    /\ gIn.op = "distance" /\ ~gOut.done
    /\ gOut' = [done |-> TRUE,
                result |-> calculateDistance(gIn.args[1], gIn.args[2],
                                             gIn.args[3], gIn.args[4])]
    /\ UNCHANGED << gIn, pIn, pOut, clientVars, serverVars, lookupVars >>

\* calculateElevation(distance, altitude)
ApplyElevation ==
    /\ gIn.op = "elevation" /\ ~gOut.done
    /\ gOut' = [done |-> TRUE,
                result |-> calculateElevation(gIn.args[1], gIn.args[2])]
    /\ UNCHANGED << gIn, pIn, pOut, clientVars, serverVars, lookupVars >>

NextGeo == ApplyBearing \/ ApplyDistance \/ ApplyElevation

SpecGeo == InitGeo /\ [][NextGeo]_vars

(* ---------------- SpecHold: a heading held constant -------------------- *)

\* the constant raw headings h, and the smoothed headings the hold starts from
\* (Null: the first event is the bootstrap)
HoldTargets == { 0, 90 * Deg, 180 * Deg, (719 * Deg) \div 2 }
HoldStarts ==
    { Null, 0, 1 * Deg, 90 * Deg, (183 * Deg) \div 2, 180 * Deg, 270 * Deg,
      359 * Deg }

\* pOut.result is lastHeadingRef.current
InitHold ==
    /\ ClientIdle
    /\ ServerIdle
    /\ LookupIdle
    /\ GeoIdle
    /\ pIn \in [op : {"hold"}, current : HoldStarts, target : HoldTargets,
                factor : {SMOOTHING_FACTOR}]
    /\ pOut = [done |-> FALSE, result |-> pIn.current, legacy |-> Null]

\* handleOrientation on an event whose webkitCompassHeading is h: the heading
\* branch.  Over the many events of a hold the step diff * 0.15 is rounded
\* down to the unit 1/Deg degree, as the double is rounded to its last bit.
HoldEvent ==
    /\ pIn.op = "hold"
    /\ pOut' = [done |-> TRUE,
                result |-> HeadingAfter(pOut.result,
                                        OrientationEvent(pIn.target, Null, Null)),
                legacy |-> Null]
    /\ UNCHANGED << pIn, gIn, gOut, clientVars, serverVars, lookupVars >>

NextHold == HoldEvent

\* the sensor keeps delivering events while tracking
SpecHold == InitHold /\ [][NextHold]_vars /\ WF_vars(HoldEvent)

(* ---------------- SpecLookup: route and airport lookups ---------------- *)

MaxLookups == 2

BAW1 == << "B", "A", "W", "1" >>
EZY2 == << "E", "Z", "Y", "2" >>
XYZ == << "X", "Y", "Z" >>
QQQ == << "Q", "Q", "Q" >>

\* the callsign parameters requests are drawn from: absent, blank, a
\* callsign as is, the same in lower case between blanks, another callsign
RouteParams ==
    { Param(FALSE, <<>>), Param(TRUE, << " " >>), Param(TRUE, BAW1),
      Param(TRUE, << " ", "b", "a", "w", "1", " " >>), Param(TRUE, EZY2) }

\* the code parameters: absent, blank, a code outside the built-in table as
\* is and in lower case between blanks, a built-in code in lower case,
\* another code outside the table
AirportParams ==
    { Param(FALSE, <<>>), Param(TRUE, << " " >>), Param(TRUE, XYZ),
      Param(TRUE, << " ", "x", "y", "z", " " >>),
      Param(TRUE, << " ", "l", "h", "r" >>), Param(TRUE, QQQ) }

\* what a route provider may answer: a flight with both airports, one with
\* the departure ICAO code alone, one without airports
RouteOutcomes ==
    { RouteOutcome("throw", NoProviderFlight), RouteOutcome("notok", NoProviderFlight),
      RouteOutcome("none", NoProviderFlight),
      RouteOutcome("flight", ProviderFlight("LHR", "EGLL", "London", "JFK", "KJFK",
                                            "New York", "BA", << "1", "1", "7" >>)),
      RouteOutcome("flight", ProviderFlight("", "EGLL", "", "", "", "", "", <<>>)),
      RouteOutcome("flight", NoProviderFlight) }

AirportOutcomes ==
    { AirportOutcome("throw", <<>>, <<>>, <<>>), AirportOutcome("notok", <<>>, <<>>, <<>>),
      AirportOutcome("none", <<>>, <<>>, <<>>),
      AirportOutcome("airport", << "X", "y", "z" >>, << "X", "y" >>, << "X", "X" >>),
      AirportOutcome("airport", <<>>, <<>>, << "X", "X" >>) }

\* the time that passes between two requests
Advances ==
    { ROUTE_CACHE_TTL - 1, ROUTE_CACHE_TTL, AIRPORT_CACHE_TTL - 1, AIRPORT_CACHE_TTL }

\* the deployments: the provider chain or AeroDataBox, with the keys set or not
LookupEnvs ==
    { [version |-> "chain", airLabsKey |-> a, aviationStackKey |-> b,
       rapidApiKey |-> FALSE] : a \in BOOLEAN, b \in BOOLEAN }
    \cup { [version |-> "aerodatabox", airLabsKey |-> a, aviationStackKey |-> FALSE,
            rapidApiKey |-> r] : a \in BOOLEAN, r \in BOOLEAN }

InitLookup ==
    /\ ClientIdle
    /\ ServerIdle
    /\ SmoothIdle
    /\ lEnv \in LookupEnvs
    /\ now = 0
    /\ routeCache = EmptyMap
    /\ airportCache = EmptyMap
    /\ nLookups = 0
    /\ ticked = FALSE
    /\ lIn = NoLookup
    /\ lOut = NoLookupResponse

\* what a provider's fetch may give: nothing when the handler does not fetch it
RouteOutcomesOf(provider, fetched) ==
    IF provider \in fetched THEN RouteOutcomes ELSE { NoRouteOutcome }

\* the providers RouteGET fetches when AirLabs, if fetched, gives first
RouteCalls(param, first) ==
    Range(RouteGET(param, routeCache, now, lEnv.airLabsKey, lEnv.aviationStackKey,
                   first, NoRouteOutcome).response.calls)

\* a request to the route lookup with the provider chain
LookupRoute ==
    /\ lEnv.version = "chain"
    /\ nLookups < MaxLookups
    /\ \E param \in RouteParams :
          \E first \in RouteOutcomesOf("airlabs", RouteCalls(param, NoRouteOutcome)) :
              \E second \in RouteOutcomesOf("aviationstack", RouteCalls(param, first)) :
                  \E handled \in { RouteGET(param, routeCache, now, lEnv.airLabsKey,
                                             lEnv.aviationStackKey, first, second) } :
                      /\ lIn' = [handler |-> "route", param |-> param, at |-> now,
                                 first |-> first, second |-> second,
                                 airport |-> NoAirportOutcome, before |-> routeCache]
                      /\ lOut' = handled.response
                      /\ routeCache' = handled.cache
                      /\ now' = handled.end
    /\ nLookups' = nLookups + 1
    /\ ticked' = FALSE
    /\ UNCHANGED << lEnv, airportCache, clientVars, serverVars, smoothVars >>

\* a request to the route lookup with AeroDataBox
LookupRouteLegacy ==
    /\ lEnv.version = "aerodatabox"
    /\ nLookups < MaxLookups
    /\ \E param \in RouteParams :
          \E first \in RouteOutcomesOf("aerodatabox",
                           Range(RouteGETLegacy(param, routeCache, now, lEnv.rapidApiKey,
                                                NoRouteOutcome).response.calls)) :
              \E handled \in { RouteGETLegacy(param, routeCache, now,
                                               lEnv.rapidApiKey, first) } :
                  /\ lIn' = [handler |-> "routeLegacy", param |-> param, at |-> now,
                             first |-> first, second |-> NoRouteOutcome,
                             airport |-> NoAirportOutcome, before |-> routeCache]
                  /\ lOut' = handled.response
                  /\ routeCache' = handled.cache
                  /\ now' = handled.end
    /\ nLookups' = nLookups + 1
    /\ ticked' = FALSE
    /\ UNCHANGED << lEnv, airportCache, clientVars, serverVars, smoothVars >>

\* a request to the airport resolver
LookupAirport ==
    /\ nLookups < MaxLookups
    /\ \E param \in AirportParams :
          \E airport \in (IF "airlabs" \in Range(AirportGET(param, airportCache, now,
                                  lEnv.airLabsKey, NoAirportOutcome).response.calls)
                          THEN AirportOutcomes ELSE { NoAirportOutcome }) :
              \E handled \in { AirportGET(param, airportCache, now,
                                           lEnv.airLabsKey, airport) } :
                  /\ lIn' = [handler |-> "airport", param |-> param, at |-> now,
                             first |-> NoRouteOutcome, second |-> NoRouteOutcome,
                             airport |-> airport, before |-> airportCache]
                  /\ lOut' = handled.response
                  /\ airportCache' = handled.cache
                  /\ now' = handled.end
    /\ nLookups' = nLookups + 1
    /\ ticked' = FALSE
    /\ UNCHANGED << lEnv, routeCache, clientVars, serverVars, smoothVars >>

\* time passes between two requests
Tick ==
    /\ nLookups > 0
    /\ nLookups < MaxLookups
    /\ ~ticked
    /\ \E dt \in Advances : now' = now + dt
    /\ ticked' = TRUE
    /\ UNCHANGED << lEnv, routeCache, airportCache, nLookups, lIn, lOut,
                    clientVars, serverVars, smoothVars >>

NextLookup == LookupRoute \/ LookupRouteLegacy \/ LookupAirport \/ Tick

SpecLookup == InitLookup /\ [][NextLookup]_vars

(* --------------------------- model soundness --------------------------- *)

\* the fixed point is exact: after n events every smoothed value is a
\* multiple of 2 * 20^(MaxEvents - n), so no division of the model rounds
FixedPointExact ==
    \A x \in { lastHeadingRef, lastTiltRef, compassHeading, deviceTilt } :
        x # Null => x % (2 * 20^(MaxEvents - Max(nEvents, 1))) = 0

(* ------------------------------- claims -------------------------------- *)

\* distance between two angles of [0, 360) along the shorter arc
ArcDist(a, b) == Min(Abs(a - b), 360 * Deg - Abs(a - b))

\* the matcher's measures of a flight, stated from the specification
PointingOff(flight) == ArcDist(compassHeading, flight.bearing)
TiltOff(flight) == Abs(deviceTilt - flight.elevation)
\* twice headingDiff * 1.5 + elevationDiff
TwiceScore(flight) == 3 * PointingOff(flight) + 2 * TiltOff(flight)
Eligible(flight) == PointingOff(flight) < 30 * Deg /\ TiltOff(flight) < 20 * Deg

\* the match effect ran its loop: tracking, heading and tilt set, list not empty
MatcherLooped ==
    /\ isTracking
    /\ compassHeading # Null
    /\ deviceTilt # Null
    /\ Len(flights) > 0

\* flights[i] is eligible, no eligible flight scores lower, and none of equal
\* score comes before it
BestAt(i) ==
    /\ Eligible(flights[i])
    /\ \A j \in 1..Len(flights) :
           Eligible(flights[j]) =>
               \/ TwiceScore(flights[i]) < TwiceScore(flights[j])
               \/ TwiceScore(flights[i]) = TwiceScore(flights[j]) /\ i <= j

\* C1: the matcher returns the eligible aircraft of minimum score, the first
\* in the list among those that share the minimum; with heading 90, tilt 10,
\* A at 95/12 and B at 100/10, it returns A
C1_MinScoreFirstWins ==
    MatcherLooped =>
        /\ \A i \in 1..Len(flights) : BestAt(i) => matchedFlight = flights[i]
        /\ ( /\ compassHeading = 90 * Deg /\ deviceTilt = 10 * Deg
             /\ Len(flights) = 2
             /\ flights[1].bearing = 95 * Deg /\ flights[1].elevation = 12 * Deg
             /\ flights[2].bearing = 100 * Deg /\ flights[2].elevation = 10 * Deg )
           => matchedFlight = flights[1]

\* two eligible aircraft share the minimum score and the first one is matched
C1_Witness ==
    /\ MatcherLooped
    /\ Len(flights) = 2
    /\ BestAt(1)
    /\ Eligible(flights[2])
    /\ TwiceScore(flights[1]) = TwiceScore(flights[2])
    /\ flights[1] # flights[2]
    /\ matchedFlight = flights[1]

\* C2: a matched aircraft is strictly within both tolerances; a heading
\* difference of exactly 30 or an elevation difference of exactly 20 is
\* never matched
C2_MatchedWithinTolerance ==
    matchedFlight # NoFlight =>
        /\ compassHeading # Null /\ deviceTilt # Null
        /\ PointingOff(matchedFlight) < 30 * Deg
        /\ TiltOff(matchedFlight) < 20 * Deg
        /\ PointingOff(matchedFlight) # 30 * Deg
        /\ TiltOff(matchedFlight) # 20 * Deg

\* an aircraft is matched while another of the list is exactly 30 degrees off
C2_Witness ==
    /\ MatcherLooped
    /\ matchedFlight # NoFlight
    /\ \E i \in 1..Len(flights) :
           PointingOff(flights[i]) = 30 * Deg /\ TiltOff(flights[i]) < 20 * Deg

\* C3: the matcher returns none when no aircraft is eligible, when the
\* smoothed heading or tilt is unset, and when the list is empty
C3_NoneWithoutCandidate ==
    /\ (compassHeading = Null \/ deviceTilt = Null) => matchedFlight = NoFlight
    /\ Len(flights) = 0 => matchedFlight = NoFlight
    /\ ( /\ compassHeading # Null /\ deviceTilt # Null
         /\ \A i \in 1..Len(flights) : ~Eligible(flights[i]) )
       => matchedFlight = NoFlight

\* the loop ran over a list without any eligible aircraft
C3_Witness ==
    /\ MatcherLooped
    /\ \A i \in 1..Len(flights) : ~Eligible(flights[i])
    /\ matchedFlight = NoFlight

\* flights[i] has the lowest raw score of the list
LowestRawAt(i) ==
    \A j \in 1..Len(flights) : TwiceScore(flights[i]) <= TwiceScore(flights[j])
Exceeds(flight) == PointingOff(flight) > 30 * Deg \/ TiltOff(flight) > 20 * Deg

\* C4 as stated: if the aircraft of lowest raw score exceeds a tolerance, the
\* matcher returns none
C4_Original ==
    MatcherLooped =>
        \A i \in 1..Len(flights) :
            (LowestRawAt(i) /\ Exceeds(flights[i])) => matchedFlight = NoFlight

\* C4 as amended: if the aircraft of lowest raw score exceeds a tolerance, the
\* matcher never returns it; it returns none when no other aircraft is
\* eligible, and otherwise the eligible aircraft of lowest score
C4_Amended ==
    MatcherLooped =>
        \A i \in 1..Len(flights) :
            (LowestRawAt(i) /\ Exceeds(flights[i])) =>
                /\ matchedFlight # flights[i]
                /\ (\A j \in 1..Len(flights) : ~Eligible(flights[j]))
                       => matchedFlight = NoFlight
                /\ \A j \in 1..Len(flights) : BestAt(j) => matchedFlight = flights[j]

\* the aircraft of lowest raw score is out of tolerance and another is matched
C4_Witness ==
    /\ MatcherLooped
    /\ \E i \in 1..Len(flights) : LowestRawAt(i) /\ Exceeds(flights[i])
    /\ matchedFlight # NoFlight

\* C5 as stated: the client's list is the list delivered by the most recent
\* successful poll; a failed poll leaves it unchanged
C5_Original == flights = lastGood

\* C6 as stated: every aircraft of a response has a known position, is not
\* on the ground and is at 100 metres or higher
C6_Original ==
    \A i \in 1..Len(sOut.flights) :
        /\ sOut.flights[i].latitude # Null
        /\ sOut.flights[i].longitude # Null
        /\ ~sOut.flights[i].on_ground
        /\ sOut.flights[i].altitude >= 100 * AltPerMetre

\* C7: the flights of a response are in ascending order of distance
C7_SortedByDistance ==
    \A i \in 1..(Len(sOut.flights) - 1) :
        sOut.flights[i].distance <= sOut.flights[i + 1].distance

ServedData == IF sOut.source = "adsbexchange" THEN sIn.adsb.data ELSE sIn.opensky.data

\* the provider listed two aircraft farthest first, and both are returned
C7_Witness ==
    /\ Len(sOut.flights) = 2
    /\ sOut.flights[1].distance < sOut.flights[2].distance
    /\ Len(ServedData) = 2
    /\ ServedData[1].hex = sOut.flights[2].icao24
    /\ ServedData[2].hex = sOut.flights[1].icao24

\* d is target - current brought into [-180, 180]
Wrapped(d, current, target) ==
    /\ d \in { target - current, target - current + 360 * Deg,
               target - current - 360 * Deg }
    /\ Abs(d) <= 180 * Deg

\* out is current moved by factor times some wrapped difference
MovedAlongShortestArc(out, current, target, factor) ==
    \E d \in { target - current, target - current + 360 * Deg,
               target - current - 360 * Deg } :
        /\ Wrapped(d, current, target)
        /\ out = (current + (d * factor.num) \div factor.den) % (360 * Deg)

SmoothAngleProbed == pOut.done /\ pIn.op = "smoothAngle" /\ pIn.current # Null
Probe359to2 ==
    /\ pIn.current = 359 * Deg /\ pIn.target = 2 * Deg /\ pIn.factor = Factor(1, 2)

\* C8 as stated: smoothAngle gives normalize(current + d * factor) for the
\* wrapped difference d, and smoothing from 359 toward 2 by 0.5 gives 1.5
C8_Original ==
    SmoothAngleProbed =>
        /\ MovedAlongShortestArc(pOut.result, pIn.current, pIn.target, pIn.factor)
        /\ MovedAlongShortestArc(pOut.legacy, pIn.current, pIn.target, pIn.factor)
        /\ Probe359to2 => (pOut.result = (3 * Deg) \div 2 /\ pOut.legacy = (3 * Deg) \div 2)

\* C8 as amended: the result is normalize(current + d * factor), except that
\* the current smoothAngle returns current when |d| < 1.5; the result is never
\* farther from the target than current was; 359 toward 2 by 0.5 gives 0.5
C8_Amended ==
    SmoothAngleProbed =>
        /\ MovedAlongShortestArc(pOut.legacy, pIn.current, pIn.target, pIn.factor)
        /\ IF ArcDist(pIn.current, pIn.target) < (3 * Deg) \div 2
           THEN pOut.result = pIn.current
           ELSE MovedAlongShortestArc(pOut.result, pIn.current, pIn.target, pIn.factor)
        /\ ArcDist(pOut.result, pIn.target) <= ArcDist(pIn.current, pIn.target)
        /\ ArcDist(pOut.legacy, pIn.target) <= ArcDist(pIn.current, pIn.target)
        /\ Probe359to2 => (pOut.result = Deg \div 2 /\ pOut.legacy = Deg \div 2)

\* 359 toward 2 by 0.5 was smoothed, through 0
C8_Witness ==
    /\ SmoothAngleProbed
    /\ Probe359to2
    /\ pOut.result = Deg \div 2

\* 90 - beta kept within [0, 90]
ClampedTilt(beta) ==
    IF beta > 90 * Deg THEN 0 ELSE IF beta < 0 THEN 90 * Deg ELSE 90 * Deg - beta

\* C9: with no smoothed state, smoothAngle returns the target for every target
\* and factor, and the first tilt sample is taken without blending
C9_BootstrapPassthrough ==
    (pOut.done /\ pIn.current = Null) =>
        /\ pIn.op = "smoothAngle" =>
               (pOut.result = pIn.target /\ pOut.legacy = pIn.target)
        /\ pIn.op = "tilt" =>
               (pOut.result = ClampedTilt(pIn.target) /\ pOut.legacy = ClampedTilt(pIn.target))

\* smoothAngle(null, 45, 0.3) was applied
C9_Witness ==
    /\ pOut.done
    /\ pIn.op = "smoothAngle"
    /\ pIn.current = Null
    /\ pIn.target = 45 * Deg
    /\ pIn.factor = Factor(3, 10)
    /\ pOut.legacy = 45 * Deg

\* C10: while tracking is off the smoothed heading and tilt are unset, and
\* only an orientation event changes them
C10_UnsetWhileOffKeptBetweenEvents ==
    /\ [](~isTracking => (lastHeadingRef = Null /\ lastTiltRef = Null))
    /\ [][nEvents' = nEvents =>
              (lastHeadingRef' = lastHeadingRef /\ lastTiltRef' = lastTiltRef)]_vars

\* in a tracking session an event wrote the state and a poll was handled since
C10_Witness ==
    /\ isTracking
    /\ nEvents > 0
    /\ nApplied > 0
    /\ lastHeadingRef # Null
    /\ lastTiltRef # Null

\* C11: a sample with a heading and a null tilt sets the smoothed heading to
\* smoothAngle of it and leaves the smoothed tilt as it was; a sample with a
\* tilt and no heading sets the smoothed tilt and leaves the smoothed heading
C11_HeadingTiltIndependent ==
    [][nEvents' # nEvents =>
          LET event == lastEvent'
          IN  /\ (RawHeading(event) # Null /\ event.beta = Null) =>
                     /\ lastHeadingRef' =
                            smoothAngle(lastHeadingRef, RawHeading(event), SMOOTHING_FACTOR)
                     /\ compassHeading' = lastHeadingRef'
                     /\ lastTiltRef' = lastTiltRef
                     /\ deviceTilt' = deviceTilt
              /\ (RawHeading(event) = Null /\ event.beta # Null) =>
                     /\ lastTiltRef' =
                            SmoothTilt(lastTiltRef, RawTilt(event.beta), SMOOTHING_FACTOR)
                     /\ deviceTilt' = lastTiltRef'
                     /\ lastHeadingRef' = lastHeadingRef
                     /\ compassHeading' = compassHeading]_vars

\* a heading-only sample was handled after the tilt had been set
C11_Witness ==
    /\ nEvents > 1
    /\ RawHeading(lastEvent) # Null
    /\ lastEvent.beta = Null
    /\ lastTiltRef # Null
    /\ lastHeadingRef # Null

\* a tilt-only sample was handled after the heading had been set
C11_WitnessTiltOnly ==
    /\ nEvents > 1
    /\ RawHeading(lastEvent) = Null
    /\ lastEvent.beta # Null
    /\ lastTiltRef # Null
    /\ lastHeadingRef # Null

\* the match as a function of the current tracking flag, heading, tilt and list
MatchOfCurrentInputs ==
    IF MatcherLooped /\ (\E i \in 1..Len(flights) : BestAt(i))
    THEN flights[CHOOSE i \in 1..Len(flights) : BestAt(i)]
    ELSE NoFlight

\* C12: in every state the match result is the from-scratch match of the
\* current tracking flag, heading, tilt and list, whatever happened before;
\* a step that leaves these four as they were leaves the match result as it was
C12_MatchPureFunctionOfInputs ==
    /\ [](matchedFlight = MatchOfCurrentInputs)
    /\ [][(/\ isTracking' = isTracking
           /\ compassHeading' = compassHeading
           /\ deviceTilt' = deviceTilt
           /\ flights' = flights) => matchedFlight' = matchedFlight]_vars

\* the matcher has run after several polls and events; nothing is eligible
\* now although the list is not empty
C12_Witness ==
    /\ MatcherLooped
    /\ nApplied > 1
    /\ nEvents > 1
    /\ matchedFlight = NoFlight

\* the provider whose records a response carries
ServedFrom == IF sIn.handler = "GETLegacy" THEN "opensky" ELSE sOut.source

\* C13: a fetch of GET /api/flights that takes more than 15 s is treated as
\* failed: none of its data is in the response, a slow ADSB Exchange fetch is
\* followed by the OpenSky fallback and a slow OpenSky fetch by an empty list
\* with an error
C13_Original ==
    \A p \in sIn.slow :
        /\ ~(ServedFrom = p /\ sOut.flights # <<>>)
        /\ p = "adsbexchange" => "opensky" \in Range(sOut.calls)
        /\ p = "opensky" => (sOut.flights = <<>> /\ sOut.hasError)

\* the current GET handled a request with valid coordinates
ServedValidGET == sIn.handler = "GET" /\ sIn.req.valid

\* ADSB Exchange answered without aircraft: no ac field, or an empty one
AdsbNoAircraft ==
    sIn.adsb.kind = "nodata" \/ (sIn.adsb.kind = "ok" /\ Len(sIn.adsb.data) = 0)

\* the records the provider named by source gave
SourceRecords ==
    IF sOut.source = "adsbexchange" THEN Range(sIn.adsb.data)
    ELSE Range(sIn.opensky.data)

\* the parts of C14 that do not concern an ADSB Exchange answer without
\* aircraft: the order, the fallback on a missing key, a failed status or a
\* thrown error, no OpenSky query after aircraft, and the source field
ProviderOrder ==
    /\ sOut.calls \in { << "opensky" >>, << "adsbexchange" >>,
                        << "adsbexchange", "opensky" >> }
    /\ ~sIn.apiKey => sOut.calls = << "opensky" >>
    /\ (sIn.apiKey /\ sIn.adsb.kind \in {"throw", "notok"}) =>
           sOut.calls = << "adsbexchange", "opensky" >>
    /\ (sIn.apiKey /\ sIn.adsb.kind = "ok" /\ Len(sIn.adsb.data) > 0) =>
           sOut.calls = << "adsbexchange" >>
    /\ sOut.source = sOut.calls[Len(sOut.calls)]
    /\ \A f \in Range(sOut.flights) : \E r \in SourceRecords : r.hex = f.icao24

\* C14 as stated: GET tries ADSB Exchange then OpenSky, moves to OpenSky
\* whenever ADSB Exchange gave no usable data (no key, failed status, thrown
\* error, or no aircraft), never queries OpenSky after ADSB Exchange gave
\* aircraft, and names in source the provider whose data it returns
C14_Original ==
    ServedValidGET =>
        /\ ProviderOrder
        /\ (sIn.apiKey /\ AdsbNoAircraft) => "opensky" \in Range(sOut.calls)

\* C14 amended: as stated, except that an ADSB Exchange answer without
\* aircraft is final: the response is an empty list with source adsbexchange
\* and OpenSky is not queried
C14_Amended ==
    ServedValidGET =>
        /\ ProviderOrder
        /\ (sIn.apiKey /\ AdsbNoAircraft) =>
               /\ sOut.calls = << "adsbexchange" >>
               /\ sOut.source = "adsbexchange"
               /\ sOut.flights = <<>>
               /\ ~sOut.hasError

\* ADSB Exchange threw, OpenSky was queried next and its aircraft are returned
C14_Witness ==
    /\ ServedValidGET
    /\ sIn.apiKey
    /\ sIn.adsb.kind = "throw"
    /\ sOut.calls = << "adsbexchange", "opensky" >>
    /\ sOut.source = "opensky"
    /\ Len(sOut.flights) = 2

\* the provider chain handled a request with a callsign and the cache did
\* not answer it
ChainLookedUp == lIn.handler = "route" /\ lOut.status # 400 /\ ~lOut.hit

\* a provider's answer has an origin or a destination
YieldsRoute(outcome) ==
    /\ outcome.kind = "flight"
    /\ \E code \in { outcome.flight.dep_iata, outcome.flight.dep_icao,
                     outcome.flight.arr_iata, outcome.flight.arr_icao } : code # ""

\* the response carries the airline name and flight number only
StaticAnswer == lOut.info.origin = "" /\ lOut.info.destination = ""

\* C15: the route lookup tries AirLabs, then AviationStack, then the static
\* airline table: AviationStack is queried only when AirLabs has no key,
\* threw or gave neither origin nor destination; the static answer is given
\* only when neither provider gave an origin or destination; a provider
\* error never becomes an error response
C15_RouteProviderChain ==
    ChainLookedUp =>
        /\ lOut.calls \in { <<>>, << "airlabs" >>, << "aviationstack" >>,
                            << "airlabs", "aviationstack" >> }
        /\ lEnv.airLabsKey => (lOut.calls # <<>> /\ lOut.calls[1] = "airlabs")
        /\ "aviationstack" \in Range(lOut.calls) =>
               \/ ~lEnv.airLabsKey
               \/ lIn.first.kind \in {"throw", "notok"}
               \/ ~YieldsRoute(lIn.first)
        /\ StaticAnswer =>
               /\ ~(lEnv.airLabsKey /\ YieldsRoute(lIn.first))
               /\ ~(lEnv.aviationStackKey /\ YieldsRoute(lIn.second))
        /\ ~StaticAnswer =>
               \/ lEnv.airLabsKey /\ YieldsRoute(lIn.first)
               \/ lEnv.aviationStackKey /\ YieldsRoute(lIn.second)
        /\ lOut.status = 200
        /\ ~lOut.hasError

\* AirLabs threw, AviationStack was queried next and gave the route
C15_Witness ==
    /\ ChainLookedUp
    /\ lIn.first.kind = "throw"
    /\ lOut.calls = << "airlabs", "aviationstack" >>
    /\ lOut.info.origin = "LHR"
    /\ lOut.info.destination = "JFK"

\* both providers failed and the static answer names the airline
C15_WitnessStatic ==
    /\ ChainLookedUp
    /\ lIn.first.kind = "notok"
    /\ lIn.second.kind = "throw"
    /\ lOut.calls = << "airlabs", "aviationstack" >>
    /\ StaticAnswer
    /\ lOut.info.airline = "British Airways"
    /\ lOut.info.flightNumber = << "1" >>

\* the key a parameter of the model stands for: blanks removed, upper case
KeyOf(param) ==
    IF ~param.present \/ param.value = << " " >> THEN <<>>
    ELSE IF param.value \in { BAW1, << " ", "b", "a", "w", "1", " " >> } THEN BAW1
    ELSE IF param.value \in { XYZ, << " ", "x", "y", "z", " " >> } THEN XYZ
    ELSE IF param.value = << " ", "l", "h", "r" >> THEN << "L", "H", "R" >>
    ELSE param.value

\* the airport resolver handled a request with a non-empty code
AirportAsked == lIn.handler = "airport" /\ KeyOf(lIn.param) # <<>>

\* the AirLabs airport lookup is unconfigured, fails, throws or finds nothing
AirportLookupFailed ==
    ~lEnv.airLabsKey \/ lIn.airport.kind \in {"throw", "notok", "none"}

\* C16: for every non-empty airport code the resolver answers 200 with a
\* name and a city and no error; when the code is neither built in nor
\* answered by the cache and the AirLabs lookup is unconfigured, fails,
\* throws or finds no airport, the name is the code and the city is empty
C16_AirportNeverFails ==
    AirportAsked =>
        /\ lOut.status = 200
        /\ ~lOut.hasError
        /\ lOut.name # <<>>
        /\ (/\ ~MapHas(AIRPORTS, KeyOf(lIn.param))
            /\ ~lOut.hit
            /\ AirportLookupFailed) =>
               (lOut.name = KeyOf(lIn.param) /\ lOut.city = <<>>)

\* " xyz " is not built in, the AirLabs fetch threw, and the answer is XYZ
\* with an empty city
C16_Witness ==
    /\ AirportAsked
    /\ lIn.param.value = << " ", "x", "y", "z", " " >>
    /\ lEnv.airLabsKey
    /\ lIn.airport.kind = "throw"
    /\ lOut.calls = << "airlabs" >>
    /\ lOut.name = XYZ
    /\ lOut.city = <<>>

\* a lookup handler handled a request with a non-empty key
LookupAsked == lIn.handler # "none" /\ KeyOf(lIn.param) # <<>>

\* the cache of the handler that served the last request, after it
CacheAfter == IF lIn.handler = "airport" THEN airportCache ELSE routeCache

\* 24 hours for airports, 1 hour for routes, in milliseconds
TtlOfHandler == IF lIn.handler = "airport" THEN 86400000 ELSE 3600000

\* when the request arrived the cache held an entry for its key
HeldEntry == MapHas(lIn.before, KeyOf(lIn.param))

\* the age of that entry when the request arrived
AgeOfEntry == lIn.at - lIn.before[KeyOf(lIn.param)].timestamp

\* the response repeats the entry held for the key
AnswersEntry ==
    LET entry == lIn.before[KeyOf(lIn.param)]
    IN  IF lIn.handler = "airport"
        THEN lOut.name = entry.name /\ lOut.city = entry.city
        ELSE /\ lOut.info.origin = entry.origin
             /\ lOut.info.destination = entry.destination
             /\ lOut.info.airline = entry.airline

\* a provider answered the request with an origin or a destination (an
\* airport, for the airport resolver)
LookupGaveData ==
    IF lIn.handler = "airport"
    THEN /\ ~MapHas(AIRPORTS, KeyOf(lIn.param))
         /\ lEnv.airLabsKey /\ lIn.airport.kind = "airport"
    ELSE IF lIn.handler = "route"
    THEN \/ lEnv.airLabsKey /\ YieldsRoute(lIn.first)
         \/ lEnv.aviationStackKey /\ YieldsRoute(lIn.second)
    ELSE lEnv.rapidApiKey /\ YieldsRoute(lIn.first)

\* the answer of the AeroDataBox handler has both an origin and a destination
GaveBothEnds ==
    /\ lIn.first.kind = "flight"
    /\ lIn.first.flight.dep_iata # "" \/ lIn.first.flight.dep_icao # ""
    /\ lIn.first.flight.arr_iata # "" \/ lIn.first.flight.arr_icao # ""

\* the entry of the key was written by this request: its timestamp is a
\* time read after the request arrived
WroteFreshEntry ==
    /\ MapHas(CacheAfter, KeyOf(lIn.param))
    /\ CacheAfter[KeyOf(lIn.param)].timestamp > lIn.at
    /\ CacheAfter[KeyOf(lIn.param)].timestamp <= now

\* the parts of C17 on serving: the cache answers only with the entry of the
\* normalized key and only while its age is below the TTL, then leaving the
\* cache as it was; an entry whose age has reached the TTL is not served and
\* the providers are asked again; entries of other keys are never touched
ServedWhileFresh ==
    /\ lOut.hit =>
           /\ HeldEntry
           /\ AgeOfEntry < TtlOfHandler
           /\ AnswersEntry
           /\ CacheAfter = lIn.before
           /\ lOut.calls = <<>>
    /\ (HeldEntry /\ AgeOfEntry >= TtlOfHandler) =>
           (~lOut.hit /\ lOut.calls # <<>>)
    /\ \A k \in DOMAIN lIn.before :
           k # KeyOf(lIn.param) => (MapHas(CacheAfter, k) /\ CacheAfter[k] = lIn.before[k])

\* C17 as stated: an entry is served only while its age is below the TTL
\* and only for the normalized key; past the TTL the next request goes to
\* the providers and every lookup that gives an origin or a destination (an
\* airport) overwrites the entry with a fresh timestamp
C17_Original ==
    LookupAsked =>
        /\ ServedWhileFresh
        /\ (~lOut.hit /\ LookupGaveData) => WroteFreshEntry

\* C17 amended: as stated, except that the AeroDataBox route handler
\* overwrites the entry only when the answer has both an origin and a
\* destination; with one of them alone it leaves the cache as it was
C17_Amended ==
    LookupAsked =>
        /\ ServedWhileFresh
        /\ (~lOut.hit /\ LookupGaveData) =>
               IF lIn.handler = "routeLegacy" /\ ~GaveBothEnds
               THEN CacheAfter = lIn.before
               ELSE WroteFreshEntry

\* a route entry whose age is exactly one hour was not served, the provider
\* was asked and the entry was overwritten
C17_Witness ==
    /\ LookupAsked
    /\ lIn.handler = "route"
    /\ HeldEntry
    /\ AgeOfEntry = 3600000
    /\ ~lOut.hit
    /\ WroteFreshEntry
    /\ lIn.param.value = << " ", "b", "a", "w", "1", " " >>

\* an airport entry one millisecond short of 24 hours was served
C17_WitnessHit ==
    /\ LookupAsked
    /\ lIn.handler = "airport"
    /\ HeldEntry
    /\ AgeOfEntry = 86400000 - 1
    /\ lOut.hit

(* ------------------------------ C18 ------------------------------------ *)

\* a latitude in [-90, 90] and a longitude in [-180, 180], twice
ValidPair(args) ==
    /\ Abs(args[1]) <= 90 * 1000000 /\ Abs(args[2]) <= 180 * 1000000
    /\ Abs(args[3]) <= 90 * 1000000 /\ Abs(args[4]) <= 180 * 1000000

\* >= on doubles: false when either side is NaN
JsGe(a, b) == a # NaN /\ b # NaN /\ a >= b

BearingInRange ==
    (gOut.done /\ gIn.op = "bearing" /\ ValidPair(gIn.args)) =>
        (JsGe(gOut.result, 0) /\ gOut.result < 360 * Deg)

DistanceNotNegative ==
    (gOut.done /\ gIn.op = "distance" /\ ValidPair(gIn.args)) =>
        JsGe(gOut.result, 0)

\* C18: for every valid pair of positions calculateBearing returns a value in
\* [0, 360), never 360 itself, and calculateDistance returns a value >= 0.
C18_Original == BearingInRange /\ DistanceNotNegative

\* the distance between two antipodal positions has been computed
C18_AntipodalDistance ==
    /\ gOut.done /\ gIn.op = "distance"
    /\ gIn.args = << 2500000, 0, 0 - 2500000, 180000000 >>
    /\ gOut.result = NaN

(* ------------------------------ C19 ------------------------------------ *)

ElevationApplied == gOut.done /\ gIn.op = "elevation"

\* C19: calculateElevation has no singularity at distance 0: it returns 90
\* for distance 0 and every altitude > 0, 0 for altitude 0 and every
\* distance > 0, and a number for every input (nothing divides by zero).
C19_ElevationNoSingularity ==
    ElevationApplied =>
        /\ gOut.result # NaN /\ gOut.result # Null
        /\ (gIn.args[1] = 0 /\ gIn.args[2] > 0) => gOut.result = 90 * Deg
        /\ (gIn.args[1] > 0 /\ gIn.args[2] = 0) => gOut.result = 0

\* calculateElevation(0, 1000) has returned 90
C19_Witness ==
    /\ ElevationApplied
    /\ gIn.args = << 0, 1000 * AltPerMetre >>
    /\ gOut.result = 90 * Deg

\* calculateElevation(100, 0) has returned 0
C19_WitnessLevel ==
    /\ ElevationApplied
    /\ gIn.args = << 100 * 1000, 0 >>
    /\ gOut.result = 0

(* ------------------------------ C20 ------------------------------------ *)

WithinTiltRange(tilt) == tilt # Null => (tilt >= 0 /\ tilt <= 90 * Deg)

\* C20: in every reachable state the smoothed tilt, when set, lies in
\* [0, 90], in the ref and in the state, for any sequence of beta values.
C20_TiltWithinRange ==
    /\ WithinTiltRange(lastTiltRef)
    /\ WithinTiltRange(deviceTilt)

\* a beta whose raw tilt was clamped has been smoothed into an earlier tilt:
\* the result lies strictly inside the interval
C20_Witness ==
    /\ nEvents = MaxEvents
    /\ lastEvent.beta # Null
    /\ (lastEvent.beta > 90 * Deg \/ lastEvent.beta < 0)
    /\ deviceTilt # Null /\ deviceTilt > 0 /\ deviceTilt < 90 * Deg
    /\ lastTiltRef = deviceTilt

\* the same for the tilt branch on its own, with every factor in (0, 1] probed
\* and the earlier page's expression
TiltProbeWithinRange ==
    (pOut.done /\ pIn.op = "tilt") =>
        (WithinTiltRange(pOut.result) /\ WithinTiltRange(pOut.legacy))

(* ------------------------------ C21 ------------------------------------ *)

\* what a step does to the client state
OrientationChanged ==
    \/ compassHeading' # compassHeading \/ deviceTilt' # deviceTilt
    \/ lastHeadingRef' # lastHeadingRef \/ lastTiltRef' # lastTiltRef
EventHandled == nEvents' = nEvents + 1
PollApplied == nApplied' = nApplied + 1
\* the head of the orientation effect ran with tracking off
TrackingOffReset ==
    /\ ~isTracking'
    /\ lastHeadingRef' = Null /\ lastTiltRef' = Null
    /\ compassHeading' = compassHeading /\ deviceTilt' = deviceTilt

\* C21: every piece of client state has one mutator: only orientation events
\* (and the tracking-off reset) change the smoothed heading and tilt, only
\* poll responses change the aircraft list, only the matcher writes the match
\* result; an orientation event leaves the list unchanged and a poll
\* response leaves the smoothed orientation unchanged.
C21_SingleMutator ==
    [][ /\ OrientationChanged => (EventHandled \/ TrackingOffReset)
        /\ flights' # flights => PollApplied
        /\ matchedFlight' # matchedFlight =>
               matchedFlight' =
                   MatchEffect(isTracking', compassHeading', deviceTilt', flights')
        /\ EventHandled => flights' = flights
        /\ PollApplied => ~OrientationChanged ]_vars

\* a poll response has been applied after orientation events set the
\* smoothed heading and tilt, and the list is not empty
C21_Witness ==
    /\ nEvents > 0 /\ nApplied > 0
    /\ compassHeading # Null /\ deviceTilt # Null
    /\ flights # << >>
    /\ inflight = {}

(* ------------------------------ C22 ------------------------------------ *)

TiltProbed == pOut.done /\ pIn.op = "tilt"

\* C22: for every beta in [-180, 180] the three-branch raw tilt of the newer
\* handler is clamp(90 - beta, 0, 90), the single expression of the older
\* handler, so both handlers store the same tilt; the mapping has no jump:
\* between any two betas the raw tilt moves by no more than beta does.
C22_TiltMappingsAgree ==
    TiltProbed =>
        /\ Abs(pIn.target) <= 180 * Deg
        /\ RawTilt(pIn.target) = Max(0, Min(90 * Deg, 90 * Deg - pIn.target))
        /\ RawTilt(pIn.target) = RawTiltLegacy(pIn.target)
        /\ pOut.result = pOut.legacy
        /\ pIn.current = Null => pOut.result = RawTilt(pIn.target)
        /\ \A other \in ProbeBetas :
               Abs(RawTilt(pIn.target) - RawTilt(other)) <= Abs(pIn.target - other)

\* a beta below 0 has been mapped by both handlers: the third branch and the
\* clamp gave 90
C22_Witness ==
    /\ TiltProbed
    /\ pIn.current = Null
    /\ pIn.target = 0 - 20 * Deg
    /\ pOut.result = 90 * Deg /\ pOut.legacy = 90 * Deg

(* ------------------------------ C23 ------------------------------------ *)

\* the smoothed tilt has moved off the previous one
TiltStepped ==
    pOut.result = pIn.current + Times(RawTilt(pIn.target) - pIn.current, pIn.factor)

\* C23: smoothAngle returns current unchanged whenever the wrapped difference
\* between target and current is below 1.5 degrees in absolute value, and
\* applies the smoothing step whenever it is 1.5 degrees or more; the tilt
\* has no dead zone: a raw tilt that differs from the previous tilt by less
\* than 1.5 degrees still moves it.
C23_DeadZoneHeadingOnly ==
    /\ SmoothAngleProbed =>
           IF ArcDist(pIn.current, pIn.target) < (3 * Deg) \div 2
           THEN pOut.result = pIn.current
           ELSE /\ MovedAlongShortestArc(pOut.result, pIn.current, pIn.target,
                                         pIn.factor)
                /\ pOut.result # pIn.current
    /\ (TiltProbed /\ pIn.current # Null) =>
           /\ TiltStepped
           /\ RawTilt(pIn.target) # pIn.current => pOut.result # pIn.current

\* a heading 1 degree off was left alone
C23_Witness ==
    /\ SmoothAngleProbed
    /\ pIn.current = 1 * Deg /\ pIn.target = 2 * Deg
    /\ pOut.result = 1 * Deg

\* a heading exactly 1.5 degrees off was smoothed
C23_WitnessEdge ==
    /\ SmoothAngleProbed
    /\ pIn.current = 0 /\ pIn.target = (3 * Deg) \div 2
    /\ pIn.factor = Factor(1, 2)
    /\ pOut.result = (3 * Deg) \div 4

\* a tilt 1 degree off was smoothed
C23_WitnessTilt ==
    /\ TiltProbed
    /\ pIn.current = 90 * Deg /\ pIn.target = 1 * Deg
    /\ pIn.factor = Factor(1, 2)
    /\ pOut.result = 90 * Deg - Deg \div 2

(* ------------------------------ C24 ------------------------------------ *)

\* C24: when polls overlap, each response is applied as it arrives, and the
\* response to an earlier-issued poll never replaces the aircraft list that
\* the response to a later-issued poll installed.
C24_Original ==
    [][ /\ PollApplied => \E id \in inflight : inflight' = inflight \ {id}
        /\ installedBy' >= installedBy ]_vars

\* applied alone, the first half holds: a response is handled when it arrives,
\* one at a time, whatever the order of issue
AppliedOnArrival ==
    [][ PollApplied => \E id \in inflight : inflight' = inflight \ {id} ]_vars

\* two polls were in flight at once and both have been answered
C24_Overlapped ==
    /\ issued = 2 /\ inflight = {} /\ nApplied = 2
    /\ installedBy = 1
    /\ flights # lastGood

(* ------------------------------ C25 ------------------------------------ *)

InCurrentList(flight) == \E i \in 1..Len(flights) : flights[i] = flight

\* C25: once the matcher has run for the current inputs, the match result is
\* none or an element of the current aircraft list, never an aircraft that
\* only an earlier list held, and it is none whenever tracking is off.
C25_MatchFromCurrentList ==
    /\ matchedFlight # NoFlight => InCurrentList(matchedFlight)
    /\ ~isTracking => matchedFlight = NoFlight

\* the second poll's response replaced the list while the device was
\* pointing, and the match is an aircraft of that list
C25_Witness ==
    /\ isTracking
    /\ nApplied = 2 /\ installedBy = 2
    /\ nEvents > 0
    /\ matchedFlight # NoFlight
    /\ InCurrentList(matchedFlight)

(* ------------------------------ C26 ------------------------------------ *)

WithinHeadingRange(heading) == heading # Null => (heading >= 0 /\ heading < 360 * Deg)

\* C26: in every reachable state the smoothed heading, when set, lies in
\* [0, 360), in the ref and in the state, for any sequence of orientation
\* events, the bootstrap event and events inside the dead zone included.
C26_HeadingWithinRange ==
    /\ WithinHeadingRange(lastHeadingRef)
    /\ WithinHeadingRange(compassHeading)

\* the bootstrap event carried alpha = 0, whose raw heading 360 - alpha
\* normalizes to 0
C26_Witness ==
    /\ nEvents = 1
    /\ lastEvent = OrientationEvent(Null, 0, Null)
    /\ compassHeading = 0 /\ lastHeadingRef = 0

\* an event inside the dead zone left the heading where it was
C26_WitnessDeadZone ==
    /\ nEvents = 2
    /\ lastEvent.webkitCompassHeading = 91 * Deg
    /\ compassHeading = 90 * Deg

\* the same for smoothAngle on its own, with current on both sides of 0/360
HeadingProbeWithinRange ==
    (pOut.done /\ pIn.op = "smoothAngle") =>
        (WithinHeadingRange(pOut.result) /\ WithinHeadingRange(pOut.legacy))

(* ------------------------------ C27 ------------------------------------ *)

\* the smoothed heading is set and less than 1.5 degrees from h
HeldInZone ==
    /\ pOut.result # Null
    /\ ArcDist(pOut.result, pIn.target) < (3 * Deg) \div 2

\* C27: while the raw heading stays at one value h, after finitely many
\* orientation events the smoothed heading is within 1.5 degrees of h along
\* the shortest arc, and from then on no event changes it.
C27_HoldConverges ==
    /\ <>[]HeldInZone
    /\ [][HeldInZone => pOut'.result = pOut.result]_vars

\* a heading that started half a turn away from h has been smoothed into the
\* dead zone of h without reaching h
C27_Witness ==
    /\ pIn.op = "hold" /\ pOut.done
    /\ pIn.current = 270 * Deg /\ pIn.target = 90 * Deg
    /\ HeldInZone
    /\ pOut.result # pIn.target

(* ------------------------------ C28 ------------------------------------ *)

\* the text is a decimal number and nothing else: an optional sign, digits
\* with at most one point among them, white space around it at most
IsNumericText(text) ==
    LET t == trim(text)
        body == IF t # <<>> /\ t[1] \in { "-", "+" } THEN Tail(t) ELSE t
    IN  /\ \A i \in 1..Len(body) : IsDigit(body[i]) \/ body[i] = "."
        /\ \E i \in 1..Len(body) : IsDigit(body[i])
        /\ Cardinality({ i \in 1..Len(body) : body[i] = "." }) <= 1

NumericParam(param) == param.present /\ IsNumericText(param.value)

\* a route or airport request without a callsign or code, or with a blank
\* one, got 400, no cache hit, no provider call, and the cache is as it was
BlankLookupRejected ==
    (lIn.handler # "none" /\ KeyOf(lIn.param) = <<>>) =>
        /\ lOut.status = 400
        /\ ~lOut.hit
        /\ lOut.calls = <<>>
        /\ CacheAfter = lIn.before

\* a flights request whose lat or lon is missing or not a number got 400
\* and no provider call
NonNumericQueryRejected ==
    (sIn.handler # "none"
        /\ ~(NumericParam(sIn.query.lat) /\ NumericParam(sIn.query.lon))) =>
        /\ sOut.status = 400
        /\ sOut.calls = <<>>

\* C28: a request with a missing or blank callsign (route), a missing or
\* blank code (airports) or a non-numeric lat or lon (flights) is answered
\* with status 400 before any cache is read or written and before any
\* provider is contacted.
C28_Original == BlankLookupRejected /\ NonNumericQueryRejected

\* what the flights handler does reject: a lat or lon from which parseFloat
\* gets no number
UnparsableQueryRejected ==
    (sIn.handler # "none"
        /\ (parseFloat(GetOrEmpty(sIn.query.lat)) = NaN
            \/ parseFloat(GetOrEmpty(sIn.query.lon)) = NaN)) =>
        /\ sOut.status = 400
        /\ sOut.calls = <<>>

\* lat = 51.5074abc was answered with aircraft
C28_TrailingTextServed ==
    /\ sIn.handler = "GET"
    /\ ~NumericParam(sIn.query.lat)
    /\ sOut.status = 200
    /\ sOut.flights # <<>>

\* a route lookup of either deployment handled a request with a callsign
RouteAsked == lIn.handler \in {"route", "routeLegacy"} /\ KeyOf(lIn.param) # <<>>

\* the request wrote the entry of its callsign
RouteEntryWritten ==
    /\ MapHas(routeCache, KeyOf(lIn.param))
    /\ ~HeldEntry \/ routeCache[KeyOf(lIn.param)] # lIn.before[KeyOf(lIn.param)]

\* the entry repeats the origin, destination and airline a provider's flight
\* gave, a missing one being the empty string
EntryRepeats(entry, outcome) ==
    /\ YieldsRoute(outcome)
    /\ entry.origin = OrElse(outcome.flight.dep_iata, outcome.flight.dep_icao)
    /\ entry.destination = OrElse(outcome.flight.arr_iata, outcome.flight.arr_icao)
    /\ entry.airline = OrElse(outcome.flight.airline_name,
                              getAirlineName(slice(KeyOf(lIn.param), 0, 3)))

\* C29: every entry of the route cache has an origin or a destination; a
\* request writes an entry only from the provider response it returns, one
\* with an origin or a destination, and the entry holds the origin,
\* destination and airline of that response; a static answer or a provider
\* failure leaves the cache as it was; a cache hit returns the origin,
\* destination and airline of the entry held
C29_RouteCacheFromProviders ==
    /\ \A k \in DOMAIN routeCache :
           routeCache[k].origin # "" \/ routeCache[k].destination # ""
    /\ RouteAsked =>
           /\ RouteEntryWritten =>
                  /\ ~lOut.hit
                  /\ lOut.calls # <<>>
                  /\ ~StaticAnswer
                  /\ routeCache[KeyOf(lIn.param)].origin = lOut.info.origin
                  /\ routeCache[KeyOf(lIn.param)].destination = lOut.info.destination
                  /\ routeCache[KeyOf(lIn.param)].airline = lOut.info.airline
                  /\ \E outcome \in { lIn.first, lIn.second } :
                         EntryRepeats(routeCache[KeyOf(lIn.param)], outcome)
           /\ (~lOut.hit /\ (StaticAnswer \/ ~LookupGaveData)) => routeCache = lIn.before
           /\ lOut.hit =>
                  /\ HeldEntry
                  /\ lOut.info.origin = lIn.before[KeyOf(lIn.param)].origin
                  /\ lOut.info.destination = lIn.before[KeyOf(lIn.param)].destination
                  /\ lOut.info.airline = lIn.before[KeyOf(lIn.param)].airline
                  /\ routeCache = lIn.before

\* AirLabs gave a flight with the departure ICAO code alone and the entry
\* written holds EGLL, no destination and the airline of the static table
C29_Witness ==
    /\ lIn.handler = "route"
    /\ RouteEntryWritten
    /\ lIn.first.kind = "flight"
    /\ lIn.first.flight.arr_icao = ""
    /\ routeCache[KeyOf(lIn.param)].origin = "EGLL"
    /\ routeCache[KeyOf(lIn.param)].destination = ""
    /\ routeCache[KeyOf(lIn.param)].airline = "British Airways"

\* a later request is answered by the entry an earlier one wrote
C29_WitnessHit ==
    /\ RouteAsked
    /\ lOut.hit
    /\ lOut.info.origin = "LHR"
    /\ lOut.info.destination = "JFK"
    /\ lOut.info.airline = "BA"

\* the providers threw or gave no airports, the static answer was returned
\* and the cache stayed empty
C29_WitnessStatic ==
    /\ lIn.handler = "route"
    /\ KeyOf(lIn.param) # <<>>
    /\ lIn.first.kind = "throw"
    /\ lIn.second.kind = "flight"
    /\ StaticAnswer
    /\ lOut.calls = << "airlabs", "aviationstack" >>
    /\ routeCache = EmptyMap

\* the smoothed heading or tilt state was written
SmoothedStateWritten ==
    compassHeading' # compassHeading \/ deviceTilt' # deviceTilt

\* C30: tracking is on only while the permission state is "granted"; tracking
\* is turned on only by a step that sets the permission state to "granted",
\* so a denied or rejected request leaves it off; an orientation event is
\* handled, and the smoothed heading and tilt written, only while tracking
\* is on
C30_TrackingOnlyWhenGranted ==
    /\ [](isTracking => permissionState = "granted")
    /\ [][ /\ (isTracking' /\ ~isTracking) => permissionState' = "granted"
           /\ (permissionState' \in {"denied", "unsupported"}) => ~isTracking'
           /\ (EventHandled \/ SmoothedStateWritten) => (isTracking /\ isTracking') ]_vars

\* the request was denied or rejected: tracking is off, no event has been
\* handled and the smoothed state is unset
C30_Witness ==
    /\ permissionState = "denied"
    /\ ~isTracking
    /\ nEvents = 0
    /\ compassHeading = Null /\ deviceTilt = Null

\* the request was granted and events have written the smoothed state
C30_WitnessGranted ==
    /\ permissionState = "granted"
    /\ isTracking
    /\ nEvents > 0
    /\ compassHeading # Null /\ deviceTilt # Null

====
